---- MODULE Spec2Model ----
(***************************************************************************)
(* Train simulation: the segment lock, the junction branch state machine   *)
(* with its two-resource reservation, and the train traversal state        *)
(* machine, as implemented in core/segment.py, core/track/junction.py,     *)
(* core/track/double_curve_junction.py, core/route.py and                  *)
(* core/trains/train.py.                                                   *)
(*                                                                         *)
(* Every method of the program is an operator that takes the world (the    *)
(* segments, the junction-like pieces and the trains) and returns the      *)
(* world after the call, together with the method's return value when it   *)
(* has one.  The specifications share the state:                           *)
(*   SpecLock    a driver calling the lock methods in any order            *)
(*   SpecSwitch  a driver calling the branch methods in any order          *)
(*   Spec        the frame loop: junction updates, then every train's      *)
(*               update in creation order                                  *)
(*   SpecShort   the frame loop with frames shorter than a station stop   *)
(*   SpecGeom    a driver calling the geometry methods of the track pieces *)
(*               and of the grid, from core/track and core/grid.py         *)
(***************************************************************************)
EXTENDS Integers, Sequences, FiniteSets, TLC

VARIABLES
    segments,   \* Segment.occupied_by of every named segment
    junctions,  \* branch state and occupied_by slot of every junction-like piece
    trains,     \* the Train objects
    now,        \* pygame.time.get_ticks()
    turn,       \* frame loop position: 0 = between frames, i = train i is next
    last,       \* the call that produced this state, with its return value
    probe       \* the train and the result of the last geometry call

vars == <<segments, junctions, trains, now, turn, last, probe>>

-----------------------------------------------------------------------------
(* Bounds of the model *)

NumTrains == 3
PieceLen == 6
FrameMs == 1000
ShortFrameMs == 500
\* A wait that begins this long before MaxTime is followed to its end
WaitSlack == 8000
MaxTime == 24000
MaxApiTime == 3000
\* Route cursors driven directly stop at this index
MaxIndex == 5
\* Movement calls on one probe train
MaxTicks == 70
\* Largest row and column index, and largest small cell size, converted
MaxCell == 5
MaxCellSize == 4
\* Largest whole arc length converted
MaxArc == 6

(* Program constants *)

switch_delay == 2000
default_speed == 3
station_stop_ms == 1000
station_dwell_ms == 2000
cell_size == 40
length_intervals == 64
arc_intervals == 32
max_iter == 20
tol == <<1, 100000>>

None == 0
NoDuration == -1
NoName == "None"

Trains == 1..NumTrains

-----------------------------------------------------------------------------
(* The track layout: the junction test layout with its tail piece, and a   *)
(* double-curve junction fed by a station platform.                        *)

JunctionIds == {"junction", "dcj"}

TrackIds == {"tail", "entry_A", "junction", "entry_S", "entry_C",
             "platform", "dcj", "left", "right"}

track_type(p) ==
    CASE p = "junction" -> "junction"
      [] p = "dcj" -> "double_curve_junction"
      [] p = "platform" -> "station"
      [] OTHER -> "straight"

\* track_object.segment, NoName for a piece without a segment
segment_of(p) ==
    CASE p = "tail" -> "segment_T"
      [] p = "entry_A" -> "segment_A"
      [] p = "entry_S" -> "segment_S"
      [] p = "entry_C" -> "segment_C"
      [] p = "platform" -> "segment_P"
      [] p = "left" -> "segment_L"
      [] p = "right" -> "segment_R"
      [] OTHER -> NoName

SegmentNames == {segment_of(p) : p \in TrackIds} \ {NoName}

ENDPOINTS(p) ==
    CASE track_type(p) = "junction" -> {"A", "S", "C"}
      [] track_type(p) = "double_curve_junction" -> {"A", "L", "R"}
      [] OTHER -> {"A", "B"}

\* The two branches of a junction-like piece.  JunctionTrack keeps the
\* boolean branch_activated; it is written here as the label of the branch
\* end: "S" for branch_activated = False, "C" for branch_activated = True.
Branches(j) == IF track_type(j) = "junction" THEN {"S", "C"} ELSE {"L", "R"}

IsJunctionLike(p) == track_type(p) \in {"junction", "double_curve_junction"}

-----------------------------------------------------------------------------
(* Segment *)

request_entry_Unguarded(w, s, t) ==
    [ret |-> TRUE, w |-> [w EXCEPT !.seg[s] = t]]

request_entry(w, s, t) ==
    IF w.seg[s] = None \/ w.seg[s] = t
    THEN [ret |-> TRUE, w |-> [w EXCEPT !.seg[s] = t]]
    ELSE [ret |-> FALSE, w |-> w]

leave_Never(w, s, t) == w

leave_Unchecked(w, s, t) ==
    [w EXCEPT !.seg[s] = None]

leave(w, s, t) ==
    IF w.seg[s] = t
    THEN [w EXCEPT !.seg[s] = None]
    ELSE w

-----------------------------------------------------------------------------
(* Junction-like pieces: reservation *)

can_reserve_junction_SlotOnly(w, j, t, s) ==
    IF w.jn[j].occupied_by = None
    THEN [ret |-> TRUE, w |-> [w EXCEPT !.jn[j].occupied_by = t]]
    ELSE [ret |-> FALSE, w |-> w]

can_reserve_junction_JunctionFirst(w, j, t, s) ==
    IF w.jn[j].occupied_by = None
    THEN IF w.seg[s] = None
         THEN [ret |-> TRUE,
               w |-> [w EXCEPT !.jn[j].occupied_by = t, !.seg[s] = t]]
         ELSE [ret |-> FALSE, w |-> [w EXCEPT !.jn[j].occupied_by = t]]
    ELSE [ret |-> FALSE, w |-> w]

can_reserve_junction_Reentrant(w, j, t, s) ==
    IF w.jn[j].occupied_by \in {None, t} /\ w.seg[s] \in {None, t}
    THEN [ret |-> TRUE,
          w |-> [w EXCEPT !.jn[j].occupied_by = t, !.seg[s] = t]]
    ELSE [ret |-> FALSE, w |-> w]

can_reserve_junction(w, j, t, s) ==
    IF w.jn[j].occupied_by = None /\ w.seg[s] = None
    THEN [ret |-> TRUE,
          w |-> [w EXCEPT !.jn[j].occupied_by = t, !.seg[s] = t]]
    ELSE [ret |-> FALSE, w |-> w]

release_junction_Never(w, j, t) == w

release_junction_Unchecked(w, j, t) ==
    [w EXCEPT !.jn[j].occupied_by = None]

release_junction(w, j, t) ==
    IF w.jn[j].occupied_by = t
    THEN [w EXCEPT !.jn[j].occupied_by = None]
    ELSE w

-----------------------------------------------------------------------------
(* Junction-like pieces: branch switching *)

request_branch_Rearm(w, j, b, clock) ==
    IF w.jn[j].active_branch = b
    THEN w
    ELSE [w EXCEPT !.jn[j].is_switching = TRUE,
                   !.jn[j].switching_until = clock + switch_delay,
                   !.jn[j].pending_branch = b]

request_branch(w, j, b, clock) ==
    IF w.jn[j].is_switching \/ w.jn[j].active_branch = b
    THEN w
    ELSE [w EXCEPT !.jn[j].is_switching = TRUE,
                   !.jn[j].switching_until = clock + switch_delay,
                   !.jn[j].pending_branch = b]

finish_switch_KeepPending(w, j) ==
    IF w.jn[j].pending_branch # NoName
    THEN [w EXCEPT !.jn[j].active_branch = w.jn[j].pending_branch]
    ELSE w

finish_switch(w, j) ==
    IF track_type(j) = "junction"
    THEN IF w.jn[j].pending_branch # NoName
         THEN [w EXCEPT !.jn[j].active_branch = w.jn[j].pending_branch,
                        !.jn[j].pending_branch = NoName]
         ELSE w
    ELSE IF w.jn[j].pending_branch \in {"L", "R"}
         THEN [w EXCEPT !.jn[j].active_branch = w.jn[j].pending_branch,
                        !.jn[j].pending_branch = NoName]
         ELSE w

junction_update_Early(w, j, clock) ==
    IF w.jn[j].is_switching
    THEN finish_switch([w EXCEPT !.jn[j].is_switching = FALSE], j)
    ELSE w

junction_update(w, j, clock) ==
    IF w.jn[j].is_switching /\ clock >= w.jn[j].switching_until
    THEN finish_switch([w EXCEPT !.jn[j].is_switching = FALSE], j)
    ELSE w

is_branch_set_for(w, j, entry_ep, exit_ep) ==
    IF track_type(j) = "junction"
    THEN CASE {entry_ep, exit_ep} = {"A", "S"} -> w.jn[j].active_branch = "S"
           [] {entry_ep, exit_ep} = {"A", "C"} -> w.jn[j].active_branch = "C"
           [] OTHER -> TRUE
    ELSE CASE {entry_ep, exit_ep} = {"A", "L"} -> w.jn[j].active_branch = "L"
           [] {entry_ep, exit_ep} = {"A", "R"} -> w.jn[j].active_branch = "R"
           [] OTHER -> TRUE

\* The branch the pair (entry, exit) needs: target_branch of
\* JunctionTrack.can_proceed, needed_branch of DoubleCurveJunctionTrack's
\* (NoName when the pair is no branch of a double-curve junction).
needed_branch(j, entry_ep, exit_ep) ==
    IF track_type(j) = "junction"
    THEN IF {entry_ep, exit_ep} = {"A", "C"} THEN "C" ELSE "S"
    ELSE CASE {entry_ep, exit_ep} = {"A", "L"} -> "L"
           [] {entry_ep, exit_ep} = {"A", "R"} -> "R"
           [] OTHER -> NoName

can_proceed_IgnoreSwitching(w, j, entry_ep, exit_ep, clock) ==
    IF is_branch_set_for(w, j, entry_ep, exit_ep)
    THEN [ret |-> TRUE, w |-> w]
    ELSE [ret |-> FALSE,
          w |-> request_branch(w, j, needed_branch(j, entry_ep, exit_ep), clock)]

can_proceed_NoRequest(w, j, entry_ep, exit_ep, clock) ==
    IF w.jn[j].is_switching
    THEN [ret |-> FALSE, w |-> w]
    ELSE [ret |-> is_branch_set_for(w, j, entry_ep, exit_ep), w |-> w]

can_proceed(w, j, entry_ep, exit_ep, clock) ==
    IF w.jn[j].is_switching
    THEN [ret |-> FALSE, w |-> w]
    ELSE IF track_type(j) = "junction"
         THEN IF is_branch_set_for(w, j, entry_ep, exit_ep)
              THEN [ret |-> TRUE, w |-> w]
              ELSE [ret |-> FALSE,
                    w |-> request_branch(w, j, needed_branch(j, entry_ep, exit_ep), clock)]
         ELSE IF needed_branch(j, entry_ep, exit_ep) = NoName
              THEN [ret |-> TRUE, w |-> w]
              ELSE IF w.jn[j].active_branch = needed_branch(j, entry_ep, exit_ep)
                   THEN [ret |-> TRUE, w |-> w]
                   ELSE [ret |-> FALSE,
                         w |-> request_branch(w, j, needed_branch(j, entry_ep, exit_ep), clock)]

-----------------------------------------------------------------------------
(* The state after construction *)

World == [seg |-> segments, jn |-> junctions, tr |-> trains]

InitJunction(j) ==
    [active_branch |-> IF track_type(j) = "junction" THEN "S" ELSE "L",
     is_switching |-> FALSE,
     switching_until |-> 0,
     pending_branch |-> NoName,
     occupied_by |-> None]

InitTrain ==
    [route |-> NoName,
     current_index |-> 0,
     current_track |-> NoName,
     entry_ep |-> NoName,
     exit_ep |-> NoName,
     current_segment |-> NoName,
     pos |-> 0,
     s_on_curve |-> 0,
     speed |-> default_speed,
     stopped |-> FALSE,
     stop_start_time |-> 0,
     stop_duration |-> 0,
     waiting_for_junction |-> FALSE]

NoCall ==
    [op |-> "init", train |-> None, seg |-> NoName, junc |-> NoName,
     entry |-> NoName, exit |-> NoName, branch |-> NoName, ret |-> FALSE]

NoProbe == [op |-> "none"]

Init ==
    /\ segments = [s \in SegmentNames |-> None]
    /\ junctions = [j \in JunctionIds |-> InitJunction(j)]
    /\ trains = [t \in Trains |-> InitTrain]
    /\ now = 0
    /\ turn = 0
    /\ last = NoCall
    /\ probe = NoProbe

SetWorld(w) ==
    /\ segments' = w.seg
    /\ junctions' = w.jn
    /\ trains' = w.tr
    /\ probe' = probe

-----------------------------------------------------------------------------
(* SpecLock: the lock methods called in any order by any train *)

ApiRequestEntry(s, t) ==
    LET r == request_entry(World, s, t) IN
    /\ SetWorld(r.w)
    /\ last' = [NoCall EXCEPT !.op = "request_entry", !.seg = s, !.train = t,
                              !.ret = r.ret]
    /\ UNCHANGED <<now, turn>>

ApiLeave(s, t) ==
    /\ SetWorld(leave(World, s, t))
    /\ last' = [NoCall EXCEPT !.op = "leave", !.seg = s, !.train = t]
    /\ UNCHANGED <<now, turn>>

ApiCanReserveJunction(j, t, s) ==
    LET r == can_reserve_junction(World, j, t, s) IN
    /\ SetWorld(r.w)
    /\ last' = [NoCall EXCEPT !.op = "can_reserve_junction", !.junc = j,
                              !.seg = s, !.train = t, !.ret = r.ret]
    /\ UNCHANGED <<now, turn>>

ApiReleaseJunction(j, t) ==
    /\ SetWorld(release_junction(World, j, t))
    /\ last' = [NoCall EXCEPT !.op = "release_junction", !.junc = j, !.train = t]
    /\ UNCHANGED <<now, turn>>

\* The driver works on the junction test layout's locks.
ApiSegments == {"segment_A", "segment_S"}

NextLock ==
    \/ \E s \in ApiSegments, t \in Trains : ApiRequestEntry(s, t)
    \/ \E s \in ApiSegments, t \in Trains : ApiLeave(s, t)
    \/ \E j \in JunctionIds, t \in Trains, s \in ApiSegments :
          ApiCanReserveJunction(j, t, s)
    \/ \E j \in JunctionIds, t \in Trains : ApiReleaseJunction(j, t)

SpecLock == Init /\ [][NextLock]_vars

-----------------------------------------------------------------------------
(* SpecSwitch: the branch methods called in any order while time passes *)

ApiRequestBranch(j, b) ==
    /\ SetWorld(request_branch(World, j, b, now))
    /\ last' = [NoCall EXCEPT !.op = "request_branch", !.junc = j, !.branch = b]
    /\ UNCHANGED <<now, turn>>

ApiCanProceed(j, entry_ep, exit_ep) ==
    LET r == can_proceed(World, j, entry_ep, exit_ep, now) IN
    /\ SetWorld(r.w)
    /\ last' = [NoCall EXCEPT !.op = "can_proceed", !.junc = j,
                              !.entry = entry_ep, !.exit = exit_ep,
                              !.ret = r.ret]
    /\ UNCHANGED <<now, turn>>

ApiJunctionUpdate(j) ==
    /\ SetWorld(junction_update(World, j, now))
    /\ last' = [NoCall EXCEPT !.op = "junction_update", !.junc = j]
    /\ UNCHANGED <<now, turn>>

ApiClock ==
    /\ now + FrameMs <= MaxApiTime
    /\ now' = now + FrameMs
    /\ last' = [NoCall EXCEPT !.op = "clock"]
    /\ UNCHANGED <<segments, junctions, trains, turn, probe>>

NextSwitch ==
    \/ \E j \in JunctionIds : \E b \in Branches(j) : ApiRequestBranch(j, b)
    \/ \E j \in JunctionIds : \E entry_ep \in ENDPOINTS(j), exit_ep \in ENDPOINTS(j) :
          ApiCanProceed(j, entry_ep, exit_ep)
    \/ \E j \in JunctionIds : ApiJunctionUpdate(j)
    \/ ApiClock

SpecSwitch == Init /\ [][NextSwitch]_vars

-----------------------------------------------------------------------------
(* Routes: the routes of the junction test layout (A_to_S, A_to_C, S_to_A, *)
(* C_to_A and the two tail routes), a route that ends on the junction, a   *)
(* route that starts on it, and four routes through the double-curve       *)
(* junction, to and from the station platform.                             *)

Step(p, entry_ep, exit_ep, stop_here) ==
    [track_id |-> p, entry |-> entry_ep, exit |-> exit_ep, stop |-> stop_here]

RouteNames == {"AS", "AC", "SA", "CA", "SA_tail", "CA_tail", "T_A", "A_J",
               "J_S", "PL", "PR", "LP", "RP"}

\* Route.steps
steps(r) ==
    CASE r = "AS" -> <<Step("entry_A", "A", "B", FALSE),
                       Step("junction", "A", "S", FALSE),
                       Step("entry_S", "B", "A", FALSE)>>
      [] r = "AC" -> <<Step("entry_A", "A", "B", FALSE),
                       Step("junction", "A", "C", FALSE),
                       Step("entry_C", "B", "A", FALSE)>>
      [] r = "SA" -> <<Step("entry_S", "A", "B", FALSE),
                       Step("junction", "S", "A", FALSE),
                       Step("entry_A", "B", "A", FALSE)>>
      [] r = "CA" -> <<Step("entry_C", "A", "B", FALSE),
                       Step("junction", "C", "A", FALSE),
                       Step("entry_A", "B", "A", FALSE)>>
      [] r = "SA_tail" -> <<Step("entry_S", "A", "B", FALSE),
                            Step("junction", "S", "A", FALSE),
                            Step("entry_A", "B", "A", FALSE),
                            Step("tail", "B", "A", FALSE)>>
      [] r = "CA_tail" -> <<Step("entry_C", "A", "B", FALSE),
                            Step("junction", "C", "A", FALSE),
                            Step("entry_A", "B", "A", FALSE),
                            Step("tail", "B", "A", FALSE)>>
      [] r = "T_A" -> <<Step("tail", "A", "B", FALSE),
                        Step("entry_A", "A", "B", FALSE)>>
      [] r = "A_J" -> <<Step("entry_A", "A", "B", FALSE),
                        Step("junction", "A", "S", FALSE)>>
      [] r = "J_S" -> <<Step("junction", "A", "S", FALSE),
                        Step("entry_S", "B", "A", FALSE)>>
      [] r = "PL" -> <<Step("platform", "A", "B", TRUE),
                       Step("dcj", "A", "L", FALSE),
                       Step("left", "A", "B", FALSE)>>
      [] r = "PR" -> <<Step("platform", "A", "B", FALSE),
                       Step("dcj", "A", "R", FALSE),
                       Step("right", "A", "B", FALSE)>>
      [] r = "LP" -> <<Step("left", "B", "A", FALSE),
                       Step("dcj", "L", "A", FALSE),
                       Step("platform", "B", "A", TRUE)>>
      [] OTHER -> <<Step("right", "B", "A", FALSE),
                    Step("dcj", "R", "A", FALSE),
                    Step("platform", "B", "A", FALSE)>>

\* Route.get_current_step, for a cursor inside the route
get_current_step(w, t) == steps(w.tr[t].route)[w.tr[t].current_index + 1]

\* Route.is_finished
is_finished(w, t) == w.tr[t].current_index >= Len(steps(w.tr[t].route))

\* Route.get_current_step returns a step (and not None)
has_current_step(w, t) == w.tr[t].current_index < Len(steps(w.tr[t].route))

advance_Skip(w, t) == [w EXCEPT !.tr[t].current_index = @ + 2]

\* Route.advance
advance(w, t) == [w EXCEPT !.tr[t].current_index = @ + 1]

-----------------------------------------------------------------------------
(* Geometry, along the piece: a position is the distance in pixels from    *)
(* endpoint A along the branch being traversed.                            *)

endpoint_pos(p, ep) == IF ep = "A" THEN 0 ELSE PieceLen

\* getattr(track_piece, "curve_length", 0)
curve_length(p) == IF track_type(p) = "junction" THEN PieceLen ELSE 0

move_straight_Overrun(w, t) ==
    LET tr == w.tr[t]
        target == endpoint_pos(tr.current_track, tr.exit_ep)
    IN  [w EXCEPT !.tr[t].pos =
            IF target >= tr.pos THEN tr.pos + tr.speed ELSE tr.pos - tr.speed]

\* StraightTrack.move_along_segment and the straight branch of a junction:
\* a step of `speed` pixels towards the exit endpoint, or the snap onto it.
move_straight(w, t) ==
    LET tr == w.tr[t]
        target == endpoint_pos(tr.current_track, tr.exit_ep)
        dist == IF target >= tr.pos THEN target - tr.pos ELSE tr.pos - target
    IN  IF dist > tr.speed
        THEN [w EXCEPT !.tr[t].pos =
                 IF target >= tr.pos THEN tr.pos + tr.speed ELSE tr.pos - tr.speed]
        ELSE [w EXCEPT !.tr[t].pos = target]

\* The curved branches: s_on_curve runs from 0 at A to the arc length.
move_curve(w, t) ==
    LET tr == w.tr[t]
        s == IF tr.entry_ep = "A"
             THEN IF tr.s_on_curve + tr.speed <= PieceLen
                  THEN tr.s_on_curve + tr.speed ELSE PieceLen
             ELSE IF tr.s_on_curve - tr.speed >= 0
                  THEN tr.s_on_curve - tr.speed ELSE 0
    IN  [w EXCEPT !.tr[t].s_on_curve = s, !.tr[t].pos = s]

IsCurveBranch(p, entry_ep, exit_ep) ==
    \/ track_type(p) = "junction" /\ {entry_ep, exit_ep} = {"A", "C"}
    \/ track_type(p) = "double_curve_junction"
       /\ ({entry_ep, exit_ep} = {"A", "L"} \/ {entry_ep, exit_ep} = {"A", "R"})

move_along_track_piece(w, t) ==
    LET tr == w.tr[t] IN
    IF IsCurveBranch(tr.current_track, tr.entry_ep, tr.exit_ep)
    THEN move_curve(w, t)
    ELSE IF track_type(tr.current_track) = "double_curve_junction"
         THEN [w EXCEPT !.tr[t].pos = endpoint_pos(tr.current_track, tr.exit_ep)]
         ELSE move_straight(w, t)

\* has_reached_endpoint(train, exit_ep) of the train's current piece
at_track_piece_end(w, t) ==
    LET tr == w.tr[t] IN
    IF IsCurveBranch(tr.current_track, tr.entry_ep, tr.exit_ep)
    THEN IF tr.entry_ep = "A" THEN tr.s_on_curve >= PieceLen ELSE tr.s_on_curve <= 0
    ELSE LET target == endpoint_pos(tr.current_track, tr.exit_ep)
         IN  tr.pos - target < 1 /\ target - tr.pos < 1

-----------------------------------------------------------------------------
(* Train *)

enter_track_piece(w, t, p, entry_ep, exit_ep) ==
    [w EXCEPT !.tr[t].current_track = p,
              !.tr[t].entry_ep = entry_ep,
              !.tr[t].exit_ep = exit_ep,
              !.tr[t].pos = endpoint_pos(p, entry_ep),
              !.tr[t].s_on_curve =
                  IF entry_ep = "A" THEN 0
                  ELSE IF track_type(p) = "double_curve_junction" THEN PieceLen
                  ELSE curve_length(p)]

set_route(w, t, r) ==
    LET step == steps(r)[1]
        w1 == enter_track_piece(
                  [w EXCEPT !.tr[t].route = r, !.tr[t].current_index = 0],
                  t, step.track_id, step.entry, step.exit)
    IN  IF segment_of(step.track_id) # NoName
        THEN request_entry(
                 [w1 EXCEPT !.tr[t].current_segment = segment_of(step.track_id)],
                 segment_of(step.track_id), t).w
        ELSE w1

stop(w, t, duration, clock) ==
    [w EXCEPT !.tr[t].stopped = TRUE,
              !.tr[t].stop_start_time = clock,
              !.tr[t].stop_duration = duration,
              !.tr[t].speed = 0]

start(w, t) ==
    [w EXCEPT !.tr[t].stopped = FALSE, !.tr[t].speed = default_speed]

handle_segment_transition_ReleaseFirst(w, t, next_track) ==
    LET next_segment == segment_of(next_track)
        cur == w.tr[t].current_segment
        w0 == IF cur # NoName THEN leave(w, cur, t) ELSE w
    IN  IF next_segment # cur
        THEN IF next_segment # NoName
             THEN LET r == request_entry(w0, next_segment, t) IN
                  IF ~r.ret
                  THEN [ret |-> FALSE,
                        w |-> [r.w EXCEPT !.tr[t].stopped = TRUE, !.tr[t].speed = 0]]
                  ELSE [ret |-> TRUE,
                        w |-> [r.w EXCEPT !.tr[t].current_segment = next_segment]]
             ELSE [ret |-> TRUE, w |-> [w0 EXCEPT !.tr[t].current_segment = NoName]]
        ELSE [ret |-> TRUE, w |-> w]

handle_segment_transition(w, t, next_track) ==
    LET next_segment == segment_of(next_track)
        cur == w.tr[t].current_segment
    IN  IF next_segment # cur
        THEN IF next_segment # NoName
             THEN LET r == request_entry(w, next_segment, t) IN
                  IF ~r.ret
                  THEN [ret |-> FALSE,
                        w |-> [r.w EXCEPT !.tr[t].stopped = TRUE, !.tr[t].speed = 0]]
                  ELSE [ret |-> TRUE,
                        w |-> [(IF cur # NoName THEN leave(r.w, cur, t) ELSE r.w)
                                  EXCEPT !.tr[t].current_segment = next_segment]]
             ELSE IF cur # NoName
                  THEN [ret |-> TRUE,
                        w |-> [leave(w, cur, t) EXCEPT !.tr[t].current_segment = NoName]]
                  ELSE [ret |-> TRUE, w |-> w]
        ELSE [ret |-> TRUE, w |-> w]

\* travel_route, lines 106-120: the interlock before a junction-like next
\* piece.  ret is false when the train has to hold its position.
junction_interlock(w, t, next_index) ==
    LET route_steps == steps(w.tr[t].route)
        next_track == route_steps[next_index + 1].track_id
        exit_index == next_index + 1
    IN  IF IsJunctionLike(next_track)
        THEN IF exit_index < Len(route_steps)
             THEN can_reserve_junction(w, next_track, t,
                      segment_of(route_steps[exit_index + 1].track_id))
             ELSE [ret |-> ~(w.jn[next_track].occupied_by # None
                             /\ w.jn[next_track].occupied_by # t),
                   w |-> w]
        ELSE [ret |-> TRUE, w |-> w]

\* travel_route, lines 101-135: the train stands at the exit endpoint.
leave_track_piece(w, t, clock) ==
    LET route_steps == steps(w.tr[t].route)
        next_index == w.tr[t].current_index + 1
    IN  IF next_index < Len(route_steps)
        THEN LET next_step == route_steps[next_index + 1]
                 lock == junction_interlock(w, t, next_index)
             IN  IF ~lock.ret
                 THEN lock.w
                 ELSE LET moved == handle_segment_transition(lock.w, t, next_step.track_id)
                      IN  IF ~moved.ret
                          THEN moved.w
                          ELSE enter_track_piece(
                                   advance(
                                       IF IsJunctionLike(w.tr[t].current_track)
                                       THEN release_junction(moved.w, w.tr[t].current_track, t)
                                       ELSE moved.w,
                                       t),
                                   t, next_step.track_id, next_step.entry, next_step.exit)
        ELSE stop(w, t, NoDuration, clock)

\* travel_route, lines 92-99: move, then the timed stop on a station piece.
move_and_arrive(w, t, clock) ==
    LET w1 == move_along_track_piece(w, t) IN
    IF at_track_piece_end(w1, t)
    THEN leave_track_piece(
             IF track_type(w1.tr[t].current_track) = "station"
             THEN stop(w1, t, station_stop_ms, clock)
             ELSE w1,
             t, clock)
    ELSE w1

travel_route(w, t, clock) ==
    LET tr == w.tr[t] IN
    IF tr.stopped \/ tr.waiting_for_junction \/ tr.route = NoName \/ is_finished(w, t)
    THEN w
    ELSE IF IsJunctionLike(tr.current_track)
         THEN LET cp == can_proceed(w, tr.current_track, tr.entry_ep, tr.exit_ep, clock) IN
              IF ~cp.ret
              THEN [cp.w EXCEPT !.tr[t].waiting_for_junction = TRUE, !.tr[t].speed = 0]
              ELSE move_and_arrive(
                       [cp.w EXCEPT !.tr[t].waiting_for_junction = FALSE,
                                    !.tr[t].speed = default_speed],
                       t, clock)
         ELSE move_and_arrive(w, t, clock)

stop_at_station(w, t, clock) ==
    IF /\ track_type(w.tr[t].current_track) = "station"
       /\ ~is_finished(w, t)
       /\ get_current_step(w, t).stop
       /\ at_track_piece_end(w, t)
    THEN start(stop(w, t, station_dwell_ms, clock), t)
    ELSE w

\* Train.update, lines 211-222: the junction wait, then the movement.
update_after_stop(w, t, clock) ==
    LET tr == w.tr[t] IN
    IF tr.waiting_for_junction
    THEN IF IsJunctionLike(tr.current_track)
         THEN LET cp == can_proceed(w, tr.current_track, tr.entry_ep, tr.exit_ep, clock) IN
              IF cp.ret
              THEN stop_at_station(
                       travel_route(
                           [cp.w EXCEPT !.tr[t].waiting_for_junction = FALSE,
                                        !.tr[t].speed = default_speed],
                           t, clock),
                       t, clock)
              ELSE cp.w
         ELSE w
    ELSE stop_at_station(travel_route(w, t, clock), t, clock)

train_update_ResumeNextTick(w, t, clock) ==
    LET tr == w.tr[t] IN
    IF tr.stopped /\ tr.stop_duration # NoDuration
    THEN IF clock - tr.stop_start_time >= tr.stop_duration
         THEN start(w, t)
         ELSE w
    ELSE update_after_stop(w, t, clock)

\* Train.update
train_update(w, t, clock) ==
    LET tr == w.tr[t] IN
    IF tr.stopped /\ tr.stop_duration # NoDuration
    THEN IF clock - tr.stop_start_time >= tr.stop_duration
         THEN update_after_stop(start(w, t), t, clock)
         ELSE w
    ELSE update_after_stop(w, t, clock)

-----------------------------------------------------------------------------
(* Spec: the frame loop.  The trains are created and given their routes in *)
(* order before the first frame; a frame advances the clock, updates every *)
(* junction-like piece and then every train in creation order.             *)

Spawned(t) == trains[t].route # NoName

SetRoute(t, r) ==
    /\ turn = 0
    /\ now = 0
    /\ ~Spawned(t)
    /\ \A u \in Trains : u < t => Spawned(u)
    /\ SetWorld(set_route(World, t, r))
    /\ last' = [NoCall EXCEPT !.op = "set_route", !.train = t]
    /\ UNCHANGED <<now, turn>>

RECURSIVE update_junction_like_pieces(_, _, _)
update_junction_like_pieces(w, js, clock) ==
    IF js = {}
    THEN w
    ELSE LET j == CHOOSE k \in js : TRUE
         IN  update_junction_like_pieces(junction_update(w, j, clock), js \ {j}, clock)

Frame ==
    /\ turn = 0
    /\ Spawned(1)
    /\ now + FrameMs <= MaxTime
    /\ now' = now + FrameMs
    /\ SetWorld(update_junction_like_pieces(World, JunctionIds, now + FrameMs))
    /\ turn' = 1
    /\ last' = [NoCall EXCEPT !.op = "frame"]

TrainUpdate(t) ==
    /\ turn = t
    /\ SetWorld(train_update(World, t, now))
    /\ turn' = IF t + 1 \in Trains /\ Spawned(t + 1) THEN t + 1 ELSE 0
    /\ last' = [NoCall EXCEPT !.op = "update", !.train = t]
    /\ UNCHANGED now

Next ==
    \/ \E t \in Trains, r \in RouteNames : SetRoute(t, r)
    \/ Frame
    \/ \E t \in Trains : TrainUpdate(t)

Spec == Init /\ [][Next]_vars

\* The control flow of the frame loop: from the end of a frame to the next
\* frame, and from one train's update to the next train's.  Every Frame and
\* TrainUpdate step is a Tick step, and no other step changes now or turn.
Tick ==
    \/ /\ turn = 0
       /\ Spawned(1)
       /\ now + FrameMs <= MaxTime
       /\ now' = now + FrameMs
       /\ turn' = 1
    \/ /\ turn # 0
       /\ now' = now
       /\ turn' = IF turn + 1 \in Trains /\ Spawned(turn + 1) THEN turn + 1 ELSE 0

\* The frame loop never stops: whenever it has a step to take, the junction
\* updates of the next frame or the next train's update, it takes it.
SpecLive == Spec /\ WF_<<now, turn>>(Tick)

-----------------------------------------------------------------------------
(* SpecShort: the frame loop at a frame rate at which a station stop and a *)
(* branch switch last several frames.                                      *)

ShortFrame ==
    /\ turn = 0
    /\ Spawned(1)
    /\ now + ShortFrameMs <= MaxTime
    /\ now' = now + ShortFrameMs
    /\ SetWorld(update_junction_like_pieces(World, JunctionIds, now + ShortFrameMs))
    /\ turn' = 1
    /\ last' = [NoCall EXCEPT !.op = "frame"]

NextShort ==
    \/ \E t \in Trains, r \in RouteNames : SetRoute(t, r)
    \/ ShortFrame
    \/ \E t \in Trains : TrainUpdate(t)

SpecShort == Init /\ [][NextShort]_vars

-----------------------------------------------------------------------------
(* SpecRoute: the frame loop with one train, whose route also has          *)
(* Route.advance and Route.reset called on it directly between frames.     *)

\* Route.reset
reset(w, t) == [w EXCEPT !.tr[t].current_index = 0]

ApiAdvance(t) ==
    /\ turn = 0
    /\ Spawned(t)
    /\ trains[t].current_index < MaxIndex
    /\ SetWorld(advance(World, t))
    /\ last' = [NoCall EXCEPT !.op = "advance", !.train = t]
    /\ UNCHANGED <<now, turn>>

ApiReset(t) ==
    /\ turn = 0
    /\ Spawned(t)
    /\ SetWorld(reset(World, t))
    /\ last' = [NoCall EXCEPT !.op = "reset", !.train = t]
    /\ UNCHANGED <<now, turn>>

\* The routes whose cursors are driven directly
ApiRoutes == {"AS", "SA_tail"}

NextRoute ==
    \/ \E r \in ApiRoutes : SetRoute(1, r)
    \/ Frame
    \/ \E t \in Trains : TrainUpdate(t)
    \/ \E t \in Trains : ApiAdvance(t)
    \/ \E t \in Trains : ApiReset(t)

SpecRoute == Init /\ [][NextRoute]_vars

-----------------------------------------------------------------------------
(* Geometry of the track pieces and of the grid.  Python floats are        *)
(* modelled by exact fractions <<numerator, denominator>> in lowest terms  *)
(* with a positive denominator.                                            *)

RECURSIVE GCD(_, _)
GCD(a, b) == IF b = 0 THEN a ELSE GCD(b, a % b)

Abs(a) == IF a < 0 THEN -a ELSE a

Frac(n, d) ==
    LET g == GCD(Abs(n), Abs(d))
        sgn == IF d < 0 THEN -1 ELSE 1
    IN  <<sgn * (n \div g), sgn * (d \div g)>>

Num(n) == <<n, 1>>
Zero == Num(0)
One == Num(1)

\* The operands of an operation are evaluated once, as the arguments of a
\* Python call are: a and b below are their values
FAdd(p, q) ==
    CHOOSE r \in {Frac(a[1] * b[2] + b[1] * a[2], a[2] * b[2]) :
                    a \in {p}, b \in {q}} : TRUE
FSub(p, q) ==
    CHOOSE r \in {Frac(a[1] * b[2] - b[1] * a[2], a[2] * b[2]) :
                    a \in {p}, b \in {q}} : TRUE
FMul(p, q) ==
    CHOOSE r \in {Frac(a[1] * b[1], a[2] * b[2]) : a \in {p}, b \in {q}} : TRUE
FDiv(p, q) ==
    CHOOSE r \in {Frac(a[1] * b[2], a[2] * b[1]) : a \in {p}, b \in {q}} : TRUE
FAbs(p) == CHOOSE r \in {<<Abs(a[1]), a[2]>> : a \in {p}} : TRUE
FLess(p, q) == \E a \in {p}, b \in {q} : a[1] * b[2] < b[1] * a[2]
FLeq(p, q) == \E a \in {p}, b \in {q} : a[1] * b[2] <= b[1] * a[2]
FMin(p, q) ==
    CHOOSE r \in {IF FLeq(a, b) THEN a ELSE b : a \in {p}, b \in {q}} : TRUE
FMax(p, q) ==
    CHOOSE r \in {IF FLeq(a, b) THEN b ELSE a : a \in {p}, b \in {q}} : TRUE

\* Grid.grid_to_screen: the pixel centre <<x, y>> of a cell
grid_to_screen_Corner(cs, row, col) == <<col * cs + cs, row * cs + cs>>

grid_to_screen(cs, row, col) ==
    <<col * cs + cs \div 2, row * cs + cs \div 2>>

\* Grid.screen_to_grid: the cell <<row, col>> holding a pixel
screen_to_grid(cs, x, y) == <<y \div cs, x \div cs>>

\* The pieces the geometry methods are called on.  Every straight run and
\* every Bezier branch lies along one axis of the grid, which keeps all
\* lengths rational.
GeomPieces == {"g_straight", "g_station", "g_curve", "g_cusp",
               "g_junction", "g_dcj"}

variant(p) ==
    CASE p = "g_straight" -> "StraightTrack"
      [] p = "g_station" -> "StationTrack"
      [] p \in {"g_curve", "g_cusp"} -> "CurvedTrack"
      [] p = "g_junction" -> "JunctionTrack"
      [] p = "g_dcj" -> "DoubleCurveJunctionTrack"

\* The class attribute ENDPOINTS of each variant
DeclaredEndpoints(p) ==
    CASE variant(p) \in {"StraightTrack", "StationTrack"} -> {"A", "B"}
      [] variant(p) = "CurvedTrack" -> {"A", "C"}
      [] variant(p) = "JunctionTrack" -> {"A", "S", "C"}
      [] variant(p) = "DoubleCurveJunctionTrack" -> {"A", "L", "R"}

\* endpoint_grids: the cell <<row, col>> of each endpoint
endpoint_grids(p) ==
    CASE p = "g_straight" -> [A |-> <<0, 0>>, B |-> <<0, 5>>]
      [] p = "g_station" -> [A |-> <<1, 0>>, B |-> <<1, 3>>]
      [] p = "g_curve" -> [A |-> <<0, 0>>, C |-> <<0, 4>>]
      [] p = "g_cusp" -> [A |-> <<0, 0>>, C |-> <<0, 3>>]
      [] p = "g_junction" -> [A |-> <<0, 0>>, S |-> <<0, 4>>, C |-> <<4, 0>>]
      [] p = "g_dcj" -> [A |-> <<0, 0>>, L |-> <<4, 0>>, R |-> <<0, 4>>]

\* The cell of the Bezier control point of the branch ending at ep
control_grid(p, ep) ==
    CASE p = "g_curve" -> <<0, 2>>
      [] p = "g_cusp" -> <<0, 5>>
      [] p = "g_junction" -> <<2, 0>>
      [] p = "g_dcj" -> IF ep = "L" THEN <<2, 0>> ELSE <<0, 2>>

\* endpoint_coords: the pixel <<x, y>> of each endpoint
endpoint_coords(p, ep) ==
    LET g == endpoint_grids(p)[ep] IN grid_to_screen(cell_size, g[1], g[2])

\* curve_points: start, control and end pixel of the branch ending at ep
curve_points(p, ep) ==
    LET c == control_grid(p, ep) IN
    <<endpoint_coords(p, "A"),
      grid_to_screen(cell_size, c[1], c[2]),
      endpoint_coords(p, ep)>>

\* The coordinate k (1 = x, 2 = y) of the point at parameter t
bezier_coord(t, pts, k) ==
    LET u == FSub(One, t) IN
    FAdd(FAdd(FMul(FMul(u, u), Num(pts[1][k])),
              FMul(FMul(Num(2), FMul(u, t)), Num(pts[2][k]))),
         FMul(FMul(t, t), Num(pts[3][k])))

quadratic_bezier(t, pts) == <<bezier_coord(t, pts, 1), bezier_coord(t, pts, 2)>>

derivative_coord(t, pts, k) ==
    FAdd(FMul(FMul(Num(2), FSub(One, t)), Num(pts[2][k] - pts[1][k])),
         FMul(FMul(Num(2), t), Num(pts[3][k] - pts[2][k])))

bezier_derivative(t, pts) == <<derivative_coord(t, pts, 1), derivative_coord(t, pts, 2)>>

\* math.hypot of a vector along one axis: the size of its other component
hypot(dx, dy) == IF dy = Zero THEN FAbs(dx) ELSE FAbs(dy)

bezier_speed(t, pts) ==
    CHOOSE r \in {hypot(d[1], d[2]) : d \in {bezier_derivative(t, pts)}} : TRUE

\* The two loops of simpson_integral over the points lo..hi-1: 4 f at the
\* odd points, 2 f at the even ones (summed by halves)
RECURSIVE simpson_terms(_, _, _, _, _)
simpson_terms(pts, a, h, lo, hi) ==
    IF lo >= hi THEN Zero
    ELSE IF hi = lo + 1
    THEN CHOOSE r \in {FMul(Num(IF lo % 2 = 1 THEN 4 ELSE 2),
                            bezier_speed(x, pts)) :
                        x \in {FAdd(a, FMul(Num(lo), h))}} : TRUE
    ELSE CHOOSE r \in {FAdd(simpson_terms(pts, a, h, lo, mid),
                            simpson_terms(pts, a, h, mid, hi)) :
                        mid \in {(lo + hi) \div 2}} : TRUE

\* simpson_integral of the speed along the curve, from a to b
simpson_integral(pts0, a0, b0, n0) ==
    LET n == IF n0 % 2 = 1 THEN n0 + 1 ELSE n0 IN
    CHOOSE r \in
        {FDiv(FMul(FAdd(FAdd(bezier_speed(ab[1], pts), bezier_speed(ab[2], pts)),
                        simpson_terms(pts, ab[1],
                                      FDiv(FSub(ab[2], ab[1]), Num(n)), 1, n)),
                   FDiv(FSub(ab[2], ab[1]), Num(n))),
              Num(3)) :
         pts \in {pts0}, ab \in {<<a0, b0>>}} : TRUE

total_arc_length(p, ep) ==
    simpson_integral(curve_points(p, ep), Zero, One, length_intervals)

\* The curved branches: <<piece, branch end>>
CurveBranches ==
    {<<"g_curve", "C">>, <<"g_cusp", "C">>, <<"g_junction", "C">>,
     <<"g_dcj", "L">>, <<"g_dcj", "R">>}

\* curve_length, left_curve_length and right_curve_length: the total arc
\* length of each curved branch, computed once by the constructor
curve_lengths == [b \in CurveBranches |-> total_arc_length(b[1], b[2])]

curve_length_of(p, ep) == curve_lengths[<<p, ep>>]

arc_length_up_to_t(p, ep, t) ==
    simpson_integral(curve_points(p, ep), Zero, t, arc_intervals)

Clamp01(t) == FMin(FMax(t, Zero), One)

\* The solver loop of arc_length_to_t; sign is 1 towards the branch end and
\* -1 towards "A"
\* One pass of the loop at the value t: the next t; stop when the speed is
\* zero and the loop breaks
newton_step(p, ep, s, sign, t) ==
    CHOOSE r \in
        {IF speed = Zero THEN [stop |-> TRUE, t |-> t]
         ELSE [stop |-> FALSE,
               t |-> FSub(t, FDiv(IF sign = 1 THEN FSub(L, s)
                                  ELSE FSub(FSub(curve_length_of(p, ep), L), s),
                                  FMul(Num(sign), speed)))] :
         L \in {arc_length_up_to_t(p, ep, t)},
         speed \in {bezier_speed(t, curve_points(p, ep))}} : TRUE

RECURSIVE solve_t(_, _, _, _, _, _)
solve_t(p, ep, s, sign, t0, iter) ==
    IF iter = 0 THEN t0
    ELSE CHOOSE r \in
            {IF st[2].stop THEN st[1]
             ELSE IF FLess(FAbs(FSub(st[2].t, st[1])), tol) THEN Clamp01(st[2].t)
             ELSE solve_t(p, ep, s, sign, Clamp01(st[2].t), iter - 1) :
             st \in {CHOOSE pr \in {<<t, newton_step(p, ep, s, sign, t)>> :
                                     t \in {t0}} : TRUE}} : TRUE

\* arc_length_to_t(s, direction): forward is "A_to_C", "A_to_L", "A_to_R"
arc_length_to_t(p, ep, s, forward) ==
    LET L == curve_length_of(p, ep) IN
    IF forward
    THEN IF FLeq(s, Zero) THEN Zero
         ELSE IF FLeq(L, s) THEN One
         ELSE solve_t(p, ep, s, 1, FDiv(s, L), max_iter)
    ELSE IF FLeq(s, Zero) THEN One
         ELSE IF FLeq(L, s) THEN Zero
         ELSE solve_t(p, ep, s, -1, FSub(One, FDiv(s, L)), max_iter)

\* get_point_and_angle: the point only; a reverse direction mirrors t
get_point(p, ep, t, forward) ==
    quadratic_bezier(IF forward THEN t ELSE FSub(One, t), curve_points(p, ep))

\* The branch end of a traversal between "A" and another endpoint
branch_end(entry_ep, exit_ep) == IF entry_ep = "A" THEN exit_ep ELSE entry_ep

\* The traversals of a piece: <<entry, exit>> along one of its branches
Traversals(p) ==
    {<<"A", e>> : e \in DeclaredEndpoints(p) \ {"A"}}
        \cup {<<e, "A">> : e \in DeclaredEndpoints(p) \ {"A"}}

IsCurvePair(p, entry_ep, exit_ep) ==
    CASE variant(p) = "CurvedTrack" -> TRUE
      [] variant(p) = "JunctionTrack" -> {entry_ep, exit_ep} = {"A", "C"}
      [] variant(p) = "DoubleCurveJunctionTrack" -> TRUE
      [] OTHER -> FALSE

probe_enter_FromZero(p, entry_ep, exit_ep) ==
    LET c == endpoint_coords(p, entry_ep) IN
    [op |-> "enter", piece |-> p, entry_ep |-> entry_ep, exit_ep |-> exit_ep,
     row |-> endpoint_grids(p)[entry_ep][1],
     col |-> endpoint_grids(p)[entry_ep][2],
     x |-> Num(c[1]), y |-> Num(c[2]),
     s_on_curve |-> Zero,
     ticks |-> 0]

\* Train.enter_track_piece, on the train of the probe
probe_enter(p, entry_ep, exit_ep) ==
    LET c == endpoint_coords(p, entry_ep) IN
    [op |-> "enter", piece |-> p, entry_ep |-> entry_ep, exit_ep |-> exit_ep,
     row |-> endpoint_grids(p)[entry_ep][1],
     col |-> endpoint_grids(p)[entry_ep][2],
     x |-> Num(c[1]), y |-> Num(c[2]),
     s_on_curve |->
        IF entry_ep = "A" THEN Zero
        ELSE IF variant(p) = "DoubleCurveJunctionTrack"
             THEN curve_length_of(p, IF {entry_ep, exit_ep} = {"A", "L"}
                                      THEN "L" ELSE "R")
        ELSE IF variant(p) \in {"CurvedTrack", "JunctionTrack"}
             THEN curve_length_of(p, "C")
        ELSE Zero,
     ticks |-> 0]

straight_move_Overshoot(tr, speed) ==
    LET target == endpoint_coords(tr.piece, tr.exit_ep)
        dx == FSub(Num(target[1]), tr.x)
        dy == FSub(Num(target[2]), tr.y)
        dist == hypot(dx, dy)
    IN  IF FLess(Zero, dist)
        THEN [tr EXCEPT !.x = FAdd(tr.x, FMul(FDiv(dx, dist), Num(speed))),
                        !.y = FAdd(tr.y, FMul(FDiv(dy, dist), Num(speed)))]
        ELSE [tr EXCEPT !.x = Num(target[1]), !.y = Num(target[2])]

\* StraightTrack.move_along_segment, and the straight branch of a junction
straight_move(tr, speed) ==
    LET target == endpoint_coords(tr.piece, tr.exit_ep)
        dx == FSub(Num(target[1]), tr.x)
        dy == FSub(Num(target[2]), tr.y)
        dist == hypot(dx, dy)
    IN  IF FLess(Num(speed), dist)
        THEN [tr EXCEPT !.x = FAdd(tr.x, FMul(FDiv(dx, dist), Num(speed))),
                        !.y = FAdd(tr.y, FMul(FDiv(dy, dist), Num(speed)))]
        ELSE [tr EXCEPT !.x = Num(target[1]), !.y = Num(target[2])]

\* CurvedTrack.move_along_segment
curve_move(tr, speed) ==
    LET forward == tr.entry_ep = "A" /\ tr.exit_ep = "C"
        L == curve_length_of(tr.piece, "C")
        s == IF forward THEN FMin(FAdd(tr.s_on_curve, Num(speed)), L)
             ELSE FMax(FSub(tr.s_on_curve, Num(speed)), Zero)
        t == arc_length_to_t(tr.piece, "C", s, TRUE)
        pt == get_point(tr.piece, "C", t, forward)
    IN  [tr EXCEPT !.s_on_curve = s, !.x = pt[1], !.y = pt[2]]

\* The curve branch of JunctionTrack.move_along_track_piece, and
\* DoubleCurveJunctionTrack.move_along_track_piece
branch_move(tr, speed) ==
    LET forward == tr.entry_ep = "A"
        ep == branch_end(tr.entry_ep, tr.exit_ep)
        L == curve_length_of(tr.piece, ep)
        s == IF forward THEN FMin(FAdd(tr.s_on_curve, Num(speed)), L)
             ELSE FMax(FSub(tr.s_on_curve, Num(speed)), Zero)
        t == arc_length_to_t(tr.piece, ep, s, forward)
        pt == get_point(tr.piece, ep, t, forward)
    IN  [tr EXCEPT !.s_on_curve = s, !.x = pt[1], !.y = pt[2]]

\* The movement method of the piece the train is on
piece_move(tr, speed) ==
    CASE variant(tr.piece) \in {"StraightTrack", "StationTrack"} ->
            straight_move(tr, speed)
      [] variant(tr.piece) = "CurvedTrack" -> curve_move(tr, speed)
      [] variant(tr.piece) = "JunctionTrack" ->
            IF IsCurvePair(tr.piece, tr.entry_ep, tr.exit_ep)
            THEN branch_move(tr, speed) ELSE straight_move(tr, speed)
      [] variant(tr.piece) = "DoubleCurveJunctionTrack" -> branch_move(tr, speed)

\* abs(train.x - tx) < 1 and abs(train.y - ty) < 1
WithinPixel(tr, ep) ==
    LET c == endpoint_coords(tr.piece, ep) IN
    /\ FLess(FAbs(FSub(tr.x, Num(c[1]))), One)
    /\ FLess(FAbs(FSub(tr.y, Num(c[2]))), One)

\* has_reached_endpoint of the piece the train is on
has_reached_endpoint(tr, exit_ep) ==
    IF IsCurvePair(tr.piece, tr.entry_ep, exit_ep)
    THEN IF tr.entry_ep = "A"
         THEN FLeq(curve_length_of(tr.piece, exit_ep), tr.s_on_curve)
         ELSE FLeq(tr.s_on_curve, Zero)
    ELSE WithinPixel(tr, exit_ep)

-----------------------------------------------------------------------------
(* SpecGeom: the geometry methods called on a probe train and on the grid *)

\* The pieces a probe train is moved along: on g_cusp the solver of
\* arc_length_to_t does not settle in its first step
MovePieces == GeomPieces \ {"g_cusp"}

\* Every geometry call is made on freshly constructed pieces: the results
\* are functions of the piece and the arguments alone
Fresh == probe = NoProbe

GeomEnter(p, entry_ep, exit_ep) ==
    /\ Fresh
    /\ probe' = probe_enter(p, entry_ep, exit_ep)
    /\ UNCHANGED <<segments, junctions, trains, now, turn, last>>

GeomMove ==
    /\ probe.op \in {"enter", "move"}
    /\ probe.ticks < MaxTicks
    /\ probe' = [piece_move(probe, default_speed) EXCEPT
                    !.op = "move", !.ticks = probe.ticks + 1]
    /\ UNCHANGED <<segments, junctions, trains, now, turn, last>>

\* The cell sizes of the grids converted
CellSizes == (1..MaxCellSize) \cup {cell_size}

GridConvert(cs, row, col) ==
    /\ Fresh
    /\ probe' = LET px == grid_to_screen(cs, row, col) IN
                [op |-> "grid", cell_size |-> cs, row |-> row, col |-> col,
                 x |-> px[1], y |-> px[2],
                 back |-> screen_to_grid(cs, px[1], px[2])]
    /\ UNCHANGED <<segments, junctions, trains, now, turn, last>>

\* The arc lengths converted on a branch: both ends of [0, L] and, where
\* the control point is midway and the solver settles in its first step,
\* every whole pixel between them
ArcLengths(p, ep) ==
    LET L == curve_length_of(p, ep) IN
    {Zero, L} \cup
        (IF p = "g_cusp" THEN {}
         ELSE {Num(k) : k \in {j \in 0..MaxArc : FLeq(Num(j), L)}})

\* arc_length_up_to_t(arc_length_to_t(s)) on every branch and arc length
ArcTrips ==
    UNION {{LET t == arc_length_to_t(b[1], b[2], s, TRUE) IN
            [op |-> "arc", piece |-> b[1], exit_ep |-> b[2], s |-> s, t |-> t,
             length |-> curve_length_of(b[1], b[2]),
             back |-> arc_length_up_to_t(b[1], b[2], t)]
           : s \in ArcLengths(b[1], b[2])} : b \in CurveBranches}

ArcRoundTrip ==
    /\ Fresh
    /\ probe' \in ArcTrips
    /\ UNCHANGED <<segments, junctions, trains, now, turn, last>>

\* The endpoint-taking queries of the pieces, and the labels they are
\* called with ("X" is declared by no variant)
Queries == {"get_endpoint_coords", "get_endpoint_grid", "get_angle", "get_length"}

Labels == {"A", "B", "C", "S", "L", "R", "X"}

\* get_endpoint_coords and get_endpoint_grid: ValueError for a label that
\* is not an endpoint, a value otherwise
endpoint_lookup(p, ep) ==
    IF ep \in DeclaredEndpoints(p) THEN "value" ELSE "error"

get_angle(p, entry_ep, exit_ep) ==
    CASE variant(p) \in {"StraightTrack", "StationTrack"} ->
            IF <<entry_ep, exit_ep>> \in {<<"A", "B">>, <<"B", "A">>}
            THEN "value" ELSE "error"
      [] variant(p) = "CurvedTrack" -> "value"
      [] OTHER ->
            IF <<entry_ep, exit_ep>> \in Traversals(p) THEN "value"
            ELSE IF endpoint_lookup(p, entry_ep) = "error" THEN "error"
            ELSE endpoint_lookup(p, exit_ep)

get_length(p, entry_ep, exit_ep) ==
    CASE variant(p) \in {"StraightTrack", "StationTrack"} ->
            IF endpoint_lookup(p, entry_ep) = "error" THEN "error"
            ELSE endpoint_lookup(p, exit_ep)
      [] OTHER -> "value"

\* Whether the query returns a value or raises
endpoint_query(p, q, entry_ep, exit_ep) ==
    CASE q = "get_endpoint_coords" -> endpoint_lookup(p, entry_ep)
      [] q = "get_endpoint_grid" -> endpoint_lookup(p, entry_ep)
      [] q = "get_angle" -> get_angle(p, entry_ep, exit_ep)
      [] q = "get_length" -> get_length(p, entry_ep, exit_ep)

\* The calls made: <<query, entry, exit>>; a query of one label is recorded
\* with it as both entry and exit
QueryCalls ==
    {<<q, ep, ep>> : q \in {"get_endpoint_coords", "get_endpoint_grid"},
                     ep \in Labels}
        \cup {<<q, entry_ep, exit_ep>> : q \in {"get_angle", "get_length"},
                                        entry_ep \in Labels, exit_ep \in Labels}

GeomQuery(p, q, entry_ep, exit_ep) ==
    /\ Fresh
    /\ probe' = [op |-> "query", piece |-> p, query |-> q,
                 entry_ep |-> entry_ep, exit_ep |-> exit_ep,
                 declared |-> DeclaredEndpoints(p),
                 outcome |-> endpoint_query(p, q, entry_ep, exit_ep)]
    /\ UNCHANGED <<segments, junctions, trains, now, turn, last>>

\* can_proceed of the junction-like pieces of the layout, with any labels
GeomCanProceed(j, entry_ep, exit_ep) ==
    LET r == can_proceed(World, j, entry_ep, exit_ep, now) IN
    /\ Fresh \/ (probe.op = "query" /\ probe.query = "can_proceed")
    /\ segments' = r.w.seg
    /\ junctions' = r.w.jn
    /\ trains' = r.w.tr
    /\ probe' = [op |-> "query", piece |-> j, query |-> "can_proceed",
                 entry_ep |-> entry_ep, exit_ep |-> exit_ep,
                 declared |-> ENDPOINTS(j),
                 outcome |-> "value"]
    /\ UNCHANGED <<now, turn, last>>

NextGeom ==
    \/ \E p \in MovePieces : \E tv \in Traversals(p) : GeomEnter(p, tv[1], tv[2])
    \/ GeomMove
    \/ \E cs \in CellSizes : \E row \in 0..MaxCell : \E col \in 0..MaxCell :
            GridConvert(cs, row, col)
    \/ ArcRoundTrip
    \/ \E p \in MovePieces : \E c \in QueryCalls :
            GeomQuery(p, c[1], c[2], c[3])
    \/ \E j \in JunctionIds : \E entry_ep \in Labels : \E exit_ep \in Labels :
            GeomCanProceed(j, entry_ep, exit_ep)

SpecGeom == Init /\ [][NextGeom]_vars

-----------------------------------------------------------------------------
(* Claims about the lock methods (SpecLock) *)

\* C1: request_entry(train) returns true and sets occupied_by to the train
\* exactly when the segment was free or already held by that train; in every
\* other case it returns false and occupied_by is unchanged.  No other lock
\* is touched.
C1_RequestEntryStep ==
    last'.op = "request_entry" =>
        LET s == last'.seg
            t == last'.train
            free == segments[s] = None \/ segments[s] = t
        IN  /\ last'.ret = free
            /\ free => segments'[s] = t
            /\ ~free => segments'[s] = segments[s]
            /\ \A o \in SegmentNames \ {s} : segments'[o] = segments[o]
            /\ junctions' = junctions

C1_RequestEntry == [][C1_RequestEntryStep]_vars

\* A request by a second train was denied and the holder kept the segment.
C1_Witness ==
    /\ last.op = "request_entry"
    /\ ~last.ret
    /\ segments[last.seg] \notin {None, last.train}

\* C2: leave(train) clears occupied_by only when the segment is held by that
\* train and changes nothing otherwise; a request_entry that follows the
\* holder's leave succeeds for whichever train makes it.
C2_LeaveStep ==
    /\ last'.op = "leave" =>
          /\ segments' = [segments EXCEPT
                 ![last'.seg] = IF @ = last'.train THEN None ELSE @]
          /\ junctions' = junctions
    /\ ( /\ last.op = "leave"
         /\ segments[last.seg] = None
         /\ last'.op = "request_entry"
         /\ last'.seg = last.seg )
       => /\ last'.ret
          /\ segments'[last.seg] = last'.train

C2_Leave == [][C2_LeaveStep]_vars

\* A train that does not hold the segment called leave and the holder kept it.
C2_Witness ==
    /\ last.op = "leave"
    /\ segments[last.seg] \notin {None, last.train}

\* C3: can_reserve_junction(train, exit_segment) succeeds exactly when the
\* junction slot and the exit segment are both free and then sets both to the
\* train; otherwise it returns false and changes neither, so no call leaves
\* exactly one of the two newly locked.
C3_ReserveStep ==
    last'.op = "can_reserve_junction" =>
        LET j == last'.junc
            s == last'.seg
            t == last'.train
            free == junctions[j].occupied_by = None /\ segments[s] = None
        IN  /\ last'.ret = free
            /\ free => /\ junctions'[j].occupied_by = t
                       /\ segments'[s] = t
            /\ ~free => /\ junctions' = junctions
                        /\ segments' = segments
            /\ (junctions'[j].occupied_by # junctions[j].occupied_by)
                  <=> (segments'[s] # segments[s])
            /\ \A o \in SegmentNames \ {s} : segments'[o] = segments[o]
            /\ \A k \in JunctionIds \ {j} : junctions'[k] = junctions[k]

C3_Reserve == [][C3_ReserveStep]_vars

\* The junction slot was free but the exit segment was held: the call failed
\* and left the junction slot free.
C3_Witness ==
    /\ last.op = "can_reserve_junction"
    /\ ~last.ret
    /\ junctions[last.junc].occupied_by = None
    /\ segments[last.seg] # None

-----------------------------------------------------------------------------
(* Claims about the branch methods (SpecSwitch) *)

\* C8: request_branch(b) changes nothing when the junction is already
\* switching or already on branch b; otherwise it sets is_switching, records
\* pending_branch = b and sets the deadline to the current time plus 2000,
\* leaving the active branch (and everything else) unchanged.
C8_RequestBranchStep ==
    last'.op = "request_branch" =>
        LET j == last'.junc
            b == last'.branch
        IN  /\ segments' = segments
            /\ IF junctions[j].is_switching \/ junctions[j].active_branch = b
               THEN junctions' = junctions
               ELSE junctions' = [junctions EXCEPT ![j] =
                        [@ EXCEPT !.is_switching = TRUE,
                                  !.pending_branch = b,
                                  !.switching_until = now + 2000]]

C8_RequestBranch == [][C8_RequestBranchStep]_vars

\* A request for the pending branch arrived while the switch was under way,
\* later than the request that armed it, and the deadline was not moved.
C8_Witness ==
    /\ last.op = "request_branch"
    /\ junctions[last.junc].is_switching
    /\ junctions[last.junc].pending_branch = last.branch
    /\ junctions[last.junc].switching_until < now + switch_delay

\* C9: can_proceed(entry, exit) on an idle junction returns true and changes
\* nothing when the branch of (entry, exit) is the active branch; when it is
\* the other branch it returns false and arms a switch to that branch.
C9_CanProceedIdleStep ==
    (last'.op = "can_proceed" /\ ~junctions[last'.junc].is_switching) =>
        LET j == last'.junc IN
        \A b \in Branches(j) :
            {last'.entry, last'.exit} = {"A", b} =>
                IF junctions[j].active_branch = b
                THEN /\ last'.ret
                     /\ junctions' = junctions
                ELSE /\ ~last'.ret
                     /\ junctions' = [junctions EXCEPT ![j] =
                            [@ EXCEPT !.is_switching = TRUE,
                                      !.pending_branch = b,
                                      !.switching_until = now + switch_delay]]

C9_CanProceedIdle == [][C9_CanProceedIdleStep]_vars

\* can_proceed was refused on an idle junction and armed the switch to the
\* branch of its pair.
C9_Witness ==
    /\ last.op = "can_proceed"
    /\ ~last.ret
    /\ junctions[last.junc].is_switching
    /\ junctions[last.junc].switching_until = now + switch_delay
    /\ {last.entry, last.exit} = {"A", junctions[last.junc].pending_branch}

\* C10: in every reachable state in which a junction-like piece is switching,
\* can_proceed returns false for every (entry, exit) pair of the piece.
C10_SwitchingBlocksAll ==
    \A j \in JunctionIds :
        junctions[j].is_switching =>
            \A entry_ep \in ENDPOINTS(j), exit_ep \in ENDPOINTS(j) :
                ~can_proceed(World, j, entry_ep, exit_ep, now).ret

\* can_proceed was called for the pair of the active branch while the junction
\* was switching, and was refused.
C10_Witness ==
    /\ last.op = "can_proceed"
    /\ junctions[last.junc].is_switching
    /\ {last.entry, last.exit} = {"A", junctions[last.junc].active_branch}
    /\ ~last.ret

\* C11: after any sequence of request_branch, can_proceed and update calls
\* on a junction-like piece, pending_branch is set exactly when is_switching
\* is true, and while set it is a branch of the piece other than the active
\* branch.
C11_PendingIffSwitching ==
    \A j \in JunctionIds :
        /\ junctions[j].pending_branch # NoName <=> junctions[j].is_switching
        /\ junctions[j].pending_branch # NoName =>
               /\ junctions[j].pending_branch \in Branches(j)
               /\ junctions[j].pending_branch # junctions[j].active_branch

\* An update has completed a switch: the piece is idle again on the branch
\* that is not its initial one, with nothing pending.
C11_Witness ==
    /\ last.op = "junction_update"
    /\ ~junctions[last.junc].is_switching
    /\ junctions[last.junc].pending_branch = NoName
    /\ junctions[last.junc].active_branch # InitJunction(last.junc).active_branch

\* C12: an update() of a switching piece at a time earlier than its deadline
\* switching_until leaves the piece as it is, the old branch active; an
\* update() at a time greater than or equal to the deadline makes the piece
\* idle with the branch that was pending as its active branch.
C12_UpdateStep ==
    (last'.op = "junction_update" /\ junctions[last'.junc].is_switching) =>
        LET j == last'.junc IN
        IF now < junctions[j].switching_until
        THEN junctions' = junctions
        ELSE junctions' = [junctions EXCEPT ![j] =
                 [@ EXCEPT !.is_switching = FALSE,
                           !.active_branch = junctions[j].pending_branch,
                           !.pending_branch = NoName]]

C12_Update == [][C12_UpdateStep]_vars

\* An update later than the deadline, and the first one since the switch was
\* armed to find the deadline reached, has just completed the switch.
C12_Witness ==
    /\ last.op = "junction_update"
    /\ ~junctions[last.junc].is_switching
    /\ junctions[last.junc].switching_until >= switch_delay
    /\ now > junctions[last.junc].switching_until
    /\ junctions[last.junc].active_branch # InitJunction(last.junc).active_branch

\* C13: while a switch is armed, a request_branch or can_proceed call for any
\* branch changes nothing of the piece; the pending branch and the deadline
\* stay as they were armed until the step that ends the switch, which is an
\* update at or after the deadline and makes the pending branch active.
C13_NotCancellableStep ==
    \A j \in JunctionIds :
        junctions[j].is_switching =>
            \/ junctions'[j] = junctions[j]
            \/ /\ last'.op = "junction_update"
               /\ last'.junc = j
               /\ now >= junctions[j].switching_until
               /\ ~junctions'[j].is_switching
               /\ junctions'[j].active_branch = junctions[j].pending_branch
               /\ junctions'[j].switching_until = junctions[j].switching_until

C13_NotCancellable == [][C13_NotCancellableStep]_vars

\* can_proceed was called for the pending branch's pair while the switch was
\* under way, later than the call that armed it; the deadline has not moved.
C13_Witness ==
    /\ last.op = "can_proceed"
    /\ junctions[last.junc].is_switching
    /\ needed_branch(last.junc, last.entry, last.exit) =
           junctions[last.junc].pending_branch
    /\ junctions[last.junc].switching_until < now + switch_delay

-----------------------------------------------------------------------------
(* Claims about the frame loop (Spec) *)

\* The piece after the train's current one on its route, NoName at the end
next_track_of(t) ==
    IF Spawned(t) /\ trains[t].current_index + 1 < Len(steps(trains[t].route))
    THEN steps(trains[t].route)[trains[t].current_index + 2].track_id
    ELSE NoName

\* The train stands at the exit endpoint of its piece
AtEnd(t) == Spawned(t) /\ at_track_piece_end(World, t)

\* C4: a segment's occupant never changes from one train straight to another
\* train: an occupied segment changes only by becoming free, and only in an
\* update of the train that held it.
C4_NoStealStep ==
    \A s \in SegmentNames :
        (segments[s] # None /\ segments'[s] # segments[s]) =>
            /\ segments'[s] = None
            /\ last'.op = "update"
            /\ last'.train = segments[s]

C4_NoSteal == [][C4_NoStealStep]_vars

\* A train at the end of its piece has just asked for the next segment, which
\* another train holds, and was stopped without taking it.
C4_Witness ==
    \E t \in Trains :
        /\ last.op = "update"
        /\ last.train = t
        /\ AtEnd(t)
        /\ trains[t].stopped
        /\ next_track_of(t) # NoName
        /\ segment_of(next_track_of(t)) # NoName
        /\ segments[segment_of(next_track_of(t))] \notin {None, t}

\* C5: a train's current piece becomes a junction-like piece only in a step
\* after which the train holds the junction's slot and the segment beyond the
\* junction on its route, and no junction-like piece ever has two trains on
\* it.
C5_JunctionEntryStep ==
    /\ \A t \in Trains :
          ( /\ trains'[t].current_track # trains[t].current_track
            /\ IsJunctionLike(trains'[t].current_track) )
          => LET j == trains'[t].current_track
                 route_steps == steps(trains'[t].route)
                 exit_index == trains'[t].current_index + 1
             IN  /\ junctions'[j].occupied_by = t
                 /\ exit_index < Len(route_steps) =>
                        segments'[segment_of(route_steps[exit_index + 1].track_id)] = t
    /\ \A j \in JunctionIds :
          Cardinality({t \in Trains : trains'[t].current_track = j}) <= 1

C5_JunctionEntry == [][C5_JunctionEntryStep]_vars

\* C6: whenever a junction slot is held by a train, that train is on the
\* junction and holds the segment of the next piece of its route, so no
\* state has one train holding the junction and waiting for the exit segment
\* while another train holds that segment and waits for the junction.
C6_HolderKeepsExit ==
    /\ \A j \in JunctionIds :
          junctions[j].occupied_by # None =>
              LET t == junctions[j].occupied_by IN
              /\ trains[t].current_track = j
              /\ next_track_of(t) # NoName
              /\ segments[segment_of(next_track_of(t))] = t
    /\ ~ \E j \in JunctionIds, t1 \in Trains, t2 \in Trains :
          /\ t1 # t2
          /\ junctions[j].occupied_by = t1
          /\ next_track_of(t1) # NoName
          /\ segments[segment_of(next_track_of(t1))] = t2
          /\ next_track_of(t2) = j

\* A train holds the junction and is on it while a second train, at the end
\* of its own piece, has the junction as its next piece and is held out.
C6_Witness ==
    \E j \in JunctionIds, t1 \in Trains, t2 \in Trains :
        /\ t1 # t2
        /\ junctions[j].occupied_by = t1
        /\ trains[t1].current_track = j
        /\ AtEnd(t2)
        /\ next_track_of(t2) = j
        /\ last.op = "update"
        /\ last.train = t2

\* C7: release_junction(train) clears the junction slot only if that train
\* holds it and touches nothing else; in the update in which a train moves
\* from a junction onto the next piece its hold on the junction slot ends
\* while it holds the segment of the piece it moved onto, a segment it held
\* already if it had reserved the junction.
C7_ReleaseStep ==
    /\ \A j \in JunctionIds, t \in Trains :
          release_junction(World, j, t) =
              [World EXCEPT !.jn[j].occupied_by = IF @ = t THEN None ELSE @]
    /\ \A t \in Trains :
          ( /\ last'.op = "update"
            /\ last'.train = t
            /\ IsJunctionLike(trains[t].current_track)
            /\ trains'[t].current_track # trains[t].current_track )
          => LET j == trains[t].current_track
                 e == segment_of(trains'[t].current_track)
             IN  /\ junctions'[j].occupied_by =
                        IF junctions[j].occupied_by = t THEN None
                        ELSE junctions[j].occupied_by
                 /\ segments'[e] = t
                 /\ trains'[t].current_segment = e
                 /\ junctions[j].occupied_by = t => segments[e] = t
                 /\ \A o \in SegmentNames \ {e} : segments'[o] = segments[o]

C7_Release == [][C7_ReleaseStep]_vars

\* A train that had reserved the junction has just moved off it: the slot is
\* free and the train is on the exit piece, holding its segment.
C7_Witness ==
    \E t \in Trains :
        /\ last.op = "update"
        /\ last.train = t
        /\ trains[t].current_index >= 1
        /\ IsJunctionLike(steps(trains[t].route)[trains[t].current_index].track_id)
        /\ trains[t].pos = endpoint_pos(trains[t].current_track, trains[t].entry_ep)
        /\ junctions[steps(trains[t].route)[trains[t].current_index].track_id].occupied_by = None
        /\ segments[segment_of(trains[t].current_track)] = t

\* The segment the train asks for when it leaves its piece: the segment of
\* the next piece, or, when the next piece is junction-like, the segment of
\* the piece after it.
wanted_segment(t) ==
    LET route_steps == steps(trains[t].route)
        next_index == trains[t].current_index + 1
    IN  IF next_track_of(t) = NoName
        THEN NoName
        ELSE IF IsJunctionLike(next_track_of(t))
             THEN IF next_index + 1 < Len(route_steps)
                  THEN segment_of(route_steps[next_index + 2].track_id)
                  ELSE NoName
             ELSE segment_of(next_track_of(t))

\* The train's update that is about to run moves it on a plain piece and
\* brings it to, or finds it at, the exit endpoint.
WillArrive(t) ==
    /\ Spawned(t)
    /\ ~IsJunctionLike(trains[t].current_track)
    /\ ~trains[t].waiting_for_junction
    /\ \/ ~trains[t].stopped
       \/ /\ trains[t].stop_duration # NoDuration
          /\ now - trains[t].stop_start_time >= trains[t].stop_duration
    /\ at_track_piece_end(move_along_track_piece(start(World, t), t), t)

\* C16: a train whose update finds the segment it asks for held by another
\* train (taken by the train updated before it in the same tick, or earlier)
\* is refused: its route cursor, its piece and every lock stay as they were.
\* It does not enter the junction wait (waiting_for_junction stays false):
\* coming from a plain piece that is no station, it is left stopped with
\* speed 0 when refused by request_entry and running at its normal speed
\* when refused by can_reserve_junction.
C16_SecondRefusedStep ==
    \A t \in Trains :
        ( /\ last'.op = "update"
          /\ last'.train = t
          /\ WillArrive(t)
          /\ wanted_segment(t) # NoName
          /\ segments[wanted_segment(t)] \notin {None, t} )
        => /\ trains'[t].current_index = trains[t].current_index
           /\ trains'[t].current_track = trains[t].current_track
           /\ trains'[t].current_segment = trains[t].current_segment
           /\ segments' = segments
           /\ junctions' = junctions
           /\ ~trains'[t].waiting_for_junction
           /\ track_type(trains[t].current_track) # "station" =>
                  IF IsJunctionLike(next_track_of(t))
                  THEN ~trains'[t].stopped /\ trains'[t].speed = default_speed
                  ELSE trains'[t].stopped /\ trains'[t].speed = 0

C16_SecondWaitsForJunctionStep ==
    \A t \in Trains :
        ( /\ last'.op = "update"
          /\ last'.train = t
          /\ WillArrive(t)
          /\ wanted_segment(t) # NoName
          /\ segments[wanted_segment(t)] \notin {None, t} )
        => /\ trains'[t].current_index = trains[t].current_index
           /\ trains'[t].current_track = trains[t].current_track
           /\ trains'[t].waiting_for_junction

RouteDone(t) ==
    /\ AtEnd(t)
    /\ trains[t].current_index = Len(steps(trains[t].route)) - 1

\* The routes that merge into segment_A and end on it
MergeRoutes == {"CA", "SA"}

\* C17: a train that has finished its route on a segment holds that segment
\* and keeps holding it in every later step, without moving on; and of two
\* trains on the routes C->A and S->A, which both end on segment_A, the one
\* that holds segment_A keeps it in every later step while the other stays on
\* the first piece of its route with its cursor at 0.
C17_FinishedKeepsSegmentStep ==
    /\ \A t \in Trains :
          (RouteDone(t) /\ segment_of(trains[t].current_track) # NoName) =>
              /\ segments[segment_of(trains[t].current_track)] = t
              /\ segments'[segment_of(trains[t].current_track)] = t
              /\ trains'[t].current_track = trains[t].current_track
              /\ trains'[t].current_index = trains[t].current_index
              /\ trains'[t].pos = trains[t].pos
    /\ \A t1 \in Trains, t2 \in Trains :
          ( /\ t1 # t2
            /\ trains[t1].route \in MergeRoutes
            /\ trains[t2].route \in MergeRoutes
            /\ segments["segment_A"] = t1 )
          => /\ segments'["segment_A"] = t1
             /\ trains'[t2].current_index = 0
             /\ trains'[t2].current_track = steps(trains[t2].route)[1].track_id
             /\ trains'[t2].current_segment = trains[t2].current_segment
             /\ junctions'["junction"].occupied_by # t2

C17_FinishedKeepsSegment == [][C17_FinishedKeepsSegmentStep]_vars

\* Ten ticks on, the first train stands finished at the end of entry_A,
\* holding segment_A, and the second, on the other merging route, has just
\* been updated at the end of its first piece and is still held there.
C17_Witness ==
    \E t1 \in Trains, t2 \in Trains :
        /\ t1 # t2
        /\ trains[t1].route \in MergeRoutes
        /\ trains[t2].route \in MergeRoutes
        /\ RouteDone(t1)
        /\ trains[t1].current_track = "entry_A"
        /\ segments["segment_A"] = t1
        /\ last.op = "update"
        /\ last.train = t2
        /\ AtEnd(t2)
        /\ trains[t2].current_index = 0
        /\ now >= 10 * FrameMs

\* Exactly the trains 1 and 2 run, on the routes r1 and r2
TwoTrainsRun(r1, r2) ==
    /\ now > 0
    /\ trains[1].route = r1
    /\ trains[2].route = r2
    /\ \A t \in Trains \ {1, 2} : ~Spawned(t)

\* The first train merges into segment_A and goes on to the tail; the second
\* comes from the other branch, on the route that ends on segment_A or on
\* the one that goes on to the tail.
TailPairs ==
    {<<"CA_tail", "SA">>, <<"CA_tail", "SA_tail">>,
     <<"SA_tail", "CA">>, <<"SA_tail", "CA_tail">>}

TailPairRuns == \E pair \in TailPairs : TwoTrainsRun(pair[1], pair[2])

CrossPairs ==
    {<<"AC", "SA">>, <<"SA", "AC">>, <<"AS", "CA">>, <<"CA", "AS">>}

CrossPairRuns == \E pair \in CrossPairs : TwoTrainsRun(pair[1], pair[2])

\* C19: two trains that cross the same junction on different branches in
\* opposite directions (A->C with S->A, or A->S with C->A) both eventually
\* stand at the end of the last piece of their routes, whichever of the two
\* is created and updated first.
C19_BothFinish == CrossPairRuns ~> (RouteDone(1) /\ RouteDone(2))

\* Both crossing trains stand stopped at the end of their routes, each on
\* the piece the other started from or beside it, and the junction is free.
C19_Witness ==
    /\ CrossPairRuns
    /\ RouteDone(1)
    /\ RouteDone(2)
    /\ trains[1].stopped
    /\ trains[2].stopped
    /\ trains[1].stop_duration = NoDuration
    /\ trains[2].stop_duration = NoDuration
    /\ junctions["junction"].occupied_by = None

\* Each of the two trains stands at the end of a plain piece and asks for a
\* segment the other holds.
MutualWait(t1, t2) ==
    /\ t1 # t2
    /\ AtEnd(t1)
    /\ AtEnd(t2)
    /\ ~IsJunctionLike(trains[t1].current_track)
    /\ ~IsJunctionLike(trains[t2].current_track)
    /\ wanted_segment(t1) # NoName
    /\ wanted_segment(t2) # NoName
    /\ segments[wanted_segment(t1)] = t2
    /\ segments[wanted_segment(t2)] = t1

\* C20: once two trains each wait for a segment the other holds, every later
\* step leaves both at their positions, on their pieces, with their cursors
\* and with exactly the segments they held, and neither holds a junction;
\* neither train enters the junction wait or any other state that would
\* mark the deadlock.
C20_StallStep ==
    \A t1 \in Trains, t2 \in Trains :
        MutualWait(t1, t2) =>
            /\ \A t \in {t1, t2} :
                  /\ trains'[t].pos = trains[t].pos
                  /\ trains'[t].s_on_curve = trains[t].s_on_curve
                  /\ trains'[t].current_track = trains[t].current_track
                  /\ trains'[t].current_index = trains[t].current_index
                  /\ trains'[t].current_segment = trains[t].current_segment
                  /\ trains'[t].waiting_for_junction = trains[t].waiting_for_junction
                  /\ trains'[t].stop_duration # NoDuration
            /\ \A s \in SegmentNames :
                  (segments[s] \in {t1, t2} \/ segments'[s] \in {t1, t2}) =>
                      segments'[s] = segments[s]
            /\ \A j \in JunctionIds :
                  /\ junctions[j].occupied_by \notin {t1, t2}
                  /\ junctions'[j].occupied_by \notin {t1, t2}

C20_Stall == [][C20_StallStep]_vars

\* Ten ticks on, the head-on trains A->S and S->A still stand at the ends of
\* their first pieces, each holding the segment the other asks for.
C20_Witness ==
    \E t1 \in Trains, t2 \in Trains :
        /\ MutualWait(t1, t2)
        /\ trains[t1].route = "AS"
        /\ trains[t2].route = "SA"
        /\ last.op = "update"
        /\ now >= 10 * FrameMs

-----------------------------------------------------------------------------
(* Claims about the route cursor (SpecRoute) *)

\* C14: Route.current_index never decreases except in a call to reset(),
\* which sets it to 0; advance() increases it by exactly one, and a train's
\* update changes it, if at all, by one step forwards.
C14_CursorStep ==
    \A t \in Trains :
        /\ trains'[t].current_index # trains[t].current_index =>
               /\ last'.train = t
               /\ \/ last'.op = "reset" /\ trains'[t].current_index = 0
                  \/ /\ last'.op \in {"advance", "update"}
                     /\ trains'[t].current_index = trains[t].current_index + 1
        /\ (last'.op = "advance" /\ last'.train = t) =>
               trains'[t].current_index = trains[t].current_index + 1
        /\ (last'.op = "reset" /\ last'.train = t) =>
               trains'[t].current_index = 0

C14_Cursor == [][C14_CursorStep]_vars

\* reset() has just put the cursor back to 0 for a train whose own updates
\* had taken it off the first piece of its route.
C14_Witness ==
    \E t \in Trains :
        /\ last.op = "reset"
        /\ last.train = t
        /\ trains[t].current_index = 0
        /\ trains[t].current_track # steps(trains[t].route)[1].track_id

\* C15: for any sequence of advance() and reset() calls the cursor stays
\* within 0..step count, where is_finished() holds exactly at the step count
\* and get_current_step() returns a step exactly below it.
C15_CursorInRange ==
    \A t \in Trains :
        Spawned(t) =>
            /\ trains[t].current_index \in 0..Len(steps(trains[t].route))
            /\ is_finished(World, t) <=>
                   trains[t].current_index = Len(steps(trains[t].route))
            /\ has_current_step(World, t) <=> ~is_finished(World, t)

-----------------------------------------------------------------------------
(* Claims about the geometry methods (SpecGeom) *)

\* C21: on every track-piece variant and in both directions, whenever
\* has_reached_endpoint(train, exit) is true after the train has been moved
\* along the piece, the train's (x, y) is within 1 pixel of the exit
\* endpoint's coordinates, also on a Curve traversed from "C" to "A".
C21_ReachedAtExit ==
    (probe.op = "move" /\ has_reached_endpoint(probe, probe.exit_ep))
        => WithinPixel(probe, probe.exit_ep)

\* The train of the scenario: on the Straight piece from cell (0,0) to
\* cell (0,5), entered at "A"
OnScenarioStraight ==
    /\ probe.op \in {"enter", "move"}
    /\ probe.piece = "g_straight"
    /\ probe.entry_ep = "A"

\* C22 (as the code has it): with cell_size 40 and speed 3 the train first
\* satisfies has_reached_endpoint("B") after exactly 67 movement calls, 66
\* steps of 3 pixels and one final snap, and from that call on its position
\* is exactly (220, 20), the centre of cell (0,5); it started at (20, 20).
C22_ArrivesAtCellCentre ==
    OnScenarioStraight =>
        /\ has_reached_endpoint(probe, "B") <=> probe.ticks >= 67
        /\ probe.ticks <= 66 =>
                probe.x = Num(20 + 3 * probe.ticks) /\ probe.y = Num(20)
        /\ probe.ticks >= 67 => probe.x = Num(220) /\ probe.y = Num(20)

\* C22 (as stated): the train first satisfies has_reached_endpoint("B")
\* after exactly 67 movement calls and on that call its position is exactly
\* (200, 0).
C22_ArrivesAtOrigin ==
    OnScenarioStraight =>
        /\ has_reached_endpoint(probe, "B") <=> probe.ticks >= 67
        /\ probe.ticks = 67 => probe.x = Num(200) /\ probe.y = Num(0)

C22_Witness ==
    /\ OnScenarioStraight
    /\ probe.ticks = 67
    /\ has_reached_endpoint(probe, "B")

\* C23: for every cell of a grid with a positive cell_size,
\* screen_to_grid(grid_to_screen(row, col)) = (row, col), and no other cell
\* has the same pixel centre.
C23_GridRoundTrip ==
    probe.op = "grid" =>
        /\ probe.back = <<probe.row, probe.col>>
        /\ \A r \in 0..MaxCell : \A c \in 0..MaxCell :
                grid_to_screen(probe.cell_size, r, c) = <<probe.x, probe.y>>
                    => <<r, c>> = <<probe.row, probe.col>>

C23_Witness ==
    /\ probe.op = "grid"
    /\ probe.cell_size = cell_size
    /\ probe.row = 2 /\ probe.col = 3
    /\ probe.x = 140 /\ probe.y = 100

\* C24: for any curve and any arc length s in [0, L],
\* arc_length_up_to_t(arc_length_to_t(s)) differs from s by less than
\* 1e-3 pixels.
C24_ArcRoundTrip ==
    probe.op = "arc" =>
        FLess(FAbs(FSub(probe.back, probe.s)), <<1, 1000>>)

\* C25: every endpoint-taking query of every variant (get_endpoint_coords,
\* get_endpoint_grid, get_angle, get_length, can_proceed) called with a
\* label outside the piece's declared endpoints signals an error instead of
\* returning a value, and leaves train and piece state unchanged.
C25_InvalidLabelStep ==
    (/\ probe'.op = "query"
     /\ ~({probe'.entry_ep, probe'.exit_ep} \subseteq probe'.declared))
        => /\ probe'.outcome = "error"
           /\ UNCHANGED <<segments, junctions, trains>>

C25_InvalidLabelSignals == [][C25_InvalidLabelStep]_vars

-----------------------------------------------------------------------------
(* Claims about stops and junction waits of a train *)

\* The step is the update of train t
UpdateOf(t) == last'.op = "update" /\ last'.train = t

\* Train t is in the timed stop state: stopped with a stop duration
InTimedStop(t) ==
    Spawned(t) /\ trains[t].stopped /\ trains[t].stop_duration # NoDuration

\* The time since the stop of train t began
Elapsed(t) == now - trains[t].stop_start_time

\* The position, piece and route cursor of train t and every lock stay
HoldsStill(t) ==
    /\ trains'[t].pos = trains[t].pos
    /\ trains'[t].s_on_curve = trains[t].s_on_curve
    /\ trains'[t].current_track = trains[t].current_track
    /\ trains'[t].current_index = trains[t].current_index
    /\ segments' = segments
    /\ \A j \in JunctionIds : junctions'[j].occupied_by = junctions[j].occupied_by

\* The piece train t is on lets it through: it is a plain piece, or a
\* junction-like piece that is not switching and is set for the train
BranchOpen(t) ==
    LET tr == trains[t] IN
    IsJunctionLike(tr.current_track) =>
        /\ ~junctions[tr.current_track].is_switching
        /\ is_branch_set_for(World, tr.current_track, tr.entry_ep, tr.exit_ep)

\* C26: while a train is in the timed stop state and the time since the
\* stop began is less than the stop duration, its update changes neither
\* its position, its route cursor nor any lock (and it stays stopped); at
\* the first update at which that time reaches the duration the train
\* leaves the stop state and resumes traversal in the same update: the
\* update is the junction wait test and the traversal of the started train,
\* and a train that is not at the end of a piece that lets it through moves.
C26_TimedStopStep ==
    \A t \in Trains :
        (UpdateOf(t) /\ InTimedStop(t)) =>
            IF Elapsed(t) < trains[t].stop_duration
            THEN HoldsStill(t) /\ trains'[t] = trains[t]
            ELSE /\ [seg |-> segments', jn |-> junctions', tr |-> trains']
                        = update_after_stop(start(World, t), t, now)
                 /\ (~AtEnd(t) /\ BranchOpen(t))
                        => \/ trains'[t].pos # trains[t].pos
                           \/ trains'[t].s_on_curve # trains[t].s_on_curve

C26_TimedStop == [][C26_TimedStopStep]_vars

\* An update has just left a train in its station stop before the deadline
C26_Witness ==
    \E t \in Trains :
        /\ last.op = "update" /\ last.train = t
        /\ InTimedStop(t)
        /\ trains[t].stop_duration = station_stop_ms
        /\ 0 < Elapsed(t) /\ Elapsed(t) < trains[t].stop_duration

\* The update of train t runs its traversal: the train is not waiting for a
\* junction and is not held by a stop
Travels(t) ==
    /\ Spawned(t)
    /\ ~trains[t].waiting_for_junction
    /\ \/ ~trains[t].stopped
       \/ InTimedStop(t) /\ Elapsed(t) >= trains[t].stop_duration

\* The update of train t moves it onto the exit endpoint of its piece
Arrives(t) ==
    /\ Travels(t)
    /\ ~AtEnd(t)
    /\ BranchOpen(t)
    /\ at_track_piece_end(move_along_track_piece(start(World, t), t), t)

\* C27: a train reaching the exit endpoint of a Station piece enters the
\* timed stop state if and only if its current route step has stop? = true.
C27_StopIffFlaggedStep ==
    \A t \in Trains :
        (/\ UpdateOf(t)
         /\ Arrives(t)
         /\ track_type(trains[t].current_track) = "station")
            => ((trains'[t].stopped /\ trains'[t].stop_duration # NoDuration)
                    <=> get_current_step(World, t).stop)

C27_StopIffFlagged == [][C27_StopIffFlaggedStep]_vars

\* The locks train t holds: its segments and its junction slots
SegmentsHeld(t) == {sg \in SegmentNames : segments[sg] = t}
JunctionsHeld(t) == {j \in JunctionIds : junctions[j].occupied_by = t}

\* C28: when the piece a travelling train is on is junction-like and
\* can_proceed(entry, exit) is false (the piece is switching or set for the
\* other branch), the update puts the train in WaitingForJunction with
\* speed 0 and does not move it; while the train stays in
\* WaitingForJunction its position, piece, route cursor and held locks do
\* not change.
C28_WaitStep ==
    \A t \in Trains :
        /\ (/\ UpdateOf(t)
            /\ Travels(t)
            /\ IsJunctionLike(trains[t].current_track)
            /\ ~BranchOpen(t))
                => /\ trains'[t].waiting_for_junction
                   /\ trains'[t].speed = 0
                   /\ HoldsStill(t)
        /\ (/\ Spawned(t)
            /\ trains[t].waiting_for_junction
            /\ trains'[t].waiting_for_junction)
                => /\ trains'[t].pos = trains[t].pos
                   /\ trains'[t].s_on_curve = trains[t].s_on_curve
                   /\ trains'[t].current_track = trains[t].current_track
                   /\ trains'[t].current_index = trains[t].current_index
                   /\ SegmentsHeld(t)' = SegmentsHeld(t)
                   /\ JunctionsHeld(t)' = JunctionsHeld(t)

C28_Wait == [][C28_WaitStep]_vars

\* An update has just put a train in WaitingForJunction on a piece that is
\* switching to the branch it needs
C28_Witness ==
    \E t \in Trains :
        /\ last.op = "update" /\ last.train = t
        /\ Spawned(t)
        /\ trains[t].waiting_for_junction
        /\ trains[t].speed = 0
        /\ IsJunctionLike(trains[t].current_track)
        /\ junctions[trains[t].current_track].is_switching
        /\ junctions[trains[t].current_track].switching_until = now + switch_delay

\* Train t waits for a junction, with frames still to come
Waits(t) ==
    /\ Spawned(t)
    /\ trains[t].waiting_for_junction
    /\ now + WaitSlack <= MaxTime

\* The update of a waiting train finds the piece set for it: the flag is
\* cleared, the speed restored and the traversal run in the same update, so
\* the train moves; its speed is normal afterwards unless that move ended in
\* a stop
C29_ResumeStep ==
    \A t \in Trains :
        (/\ UpdateOf(t)
         /\ Spawned(t)
         /\ trains[t].waiting_for_junction
         /\ IsJunctionLike(trains[t].current_track)
         /\ BranchOpen(t))
            => /\ ~trains'[t].waiting_for_junction
               /\ \/ trains'[t].pos # trains[t].pos
                  \/ trains'[t].s_on_curve # trains[t].s_on_curve
                  \/ trains'[t].current_track # trains[t].current_track
               /\ trains'[t].speed = default_speed \/ trains'[t].stopped
               /\ [seg |-> segments', jn |-> junctions', tr |-> trains']
                    = stop_at_station(
                          travel_route(
                              [World EXCEPT !.tr[t].waiting_for_junction = FALSE,
                                            !.tr[t].speed = default_speed],
                              t, now),
                          t, now)

\* C29: with the junction-like pieces updated in every frame, a train in
\* WaitingForJunction eventually leaves the waiting state; once the armed
\* switch has completed to the branch it needs, its next update clears the
\* flag, restores normal speed and moves the train in that same update.
C29_WaitEnds ==
    /\ [][C29_ResumeStep]_vars
    /\ \A t \in Trains : Waits(t) ~> ~trains[t].waiting_for_junction


\* The update of the running train t brings it to, or finds it at, the exit
\* endpoint of a plain piece whose next piece is junction-like, and the
\* reservation of that piece fails
ReservationFails(t) ==
    /\ Spawned(t)
    /\ ~trains[t].stopped
    /\ ~trains[t].waiting_for_junction
    /\ ~IsJunctionLike(trains[t].current_track)
    /\ at_track_piece_end(move_along_track_piece(World, t), t)
    /\ next_track_of(t) # NoName
    /\ IsJunctionLike(next_track_of(t))
    /\ ~junction_interlock(move_along_track_piece(World, t), t,
                            trains[t].current_index + 1).ret

\* C30: when a train at the exit endpoint of its piece fails the
\* reservation of the junction that is its next piece, the update changes
\* no state: apart from the move that brought the train to the endpoint,
\* its position, piece, route cursor, stopped and waiting flags, timers and
\* speed and every lock and junction are as before, also when the piece the
\* train stands on is a Station.
C30_NoChangeStep ==
    \A t \in Trains :
        (UpdateOf(t) /\ ReservationFails(t)) =>
            /\ trains'[t] = move_along_track_piece(World, t).tr[t]
            /\ segments' = segments
            /\ junctions' = junctions

C30_NoChange == [][C30_NoChangeStep]_vars

-----------------------------------------------------------------------------
(* Claims about the transition of a train from one piece to the next *)

\* The segment train t asks for with request_entry when it leaves its piece:
\* the segment of a next piece that is not junction-like and lies in another
\* segment than the train's own; NoName when no request is made
requested_segment(t) ==
    IF /\ next_track_of(t) # NoName
       /\ ~IsJunctionLike(next_track_of(t))
       /\ segment_of(next_track_of(t)) # trains[t].current_segment
    THEN segment_of(next_track_of(t))
    ELSE NoName

\* The update of train t that is about to run takes it to, or finds it at,
\* the exit endpoint of its piece
ReachesExit(t) ==
    /\ Travels(t)
    /\ BranchOpen(t)
    /\ at_track_piece_end(move_along_track_piece(start(World, t), t), t)

\* The update of train t calls request_entry for the next segment and the
\* segment is held by another train
RequestFails(t) ==
    /\ ReachesExit(t)
    /\ requested_segment(t) # NoName
    /\ segments[requested_segment(t)] \notin {None, t}

C31_HoldsPositionStep ==
    \A t \in Trains :
        (UpdateOf(t) /\ RequestFails(t)) =>
            /\ trains'[t].current_track = trains[t].current_track
            /\ trains'[t].current_index = trains[t].current_index
            /\ trains'[t].current_segment = trains[t].current_segment
            /\ at_track_piece_end([seg |-> segments', jn |-> junctions',
                                   tr |-> trains'], t)
            /\ segments' = segments
            /\ junctions' = junctions

\* Train t stands refused at the exit endpoint with cursor i, the segment it
\* asked for is free again, and enough time is left for its retry
FreeAgain(t, i) ==
    /\ AtEnd(t)
    /\ trains[t].stopped
    /\ trains[t].stop_duration # NoDuration
    /\ trains[t].current_index = i
    /\ requested_segment(t) # NoName
    /\ segments[requested_segment(t)] = None
    /\ now + WaitSlack <= MaxTime

\* Train t has moved on from cursor i, or the segment it asks for has been
\* taken again before its retry
MovedOn(t, i) ==
    \/ trains[t].current_index # i
    \/ requested_segment(t) # NoName /\ segments[requested_segment(t)] # None

\* C31: when request_entry for the next non-junction segment fails, the
\* train holds its position: its piece, route cursor and current segment
\* are unchanged, it stays at the exit endpoint and no lock changes, so it
\* still holds its current segment; it retries on a later tick, and once
\* the segment is free again it is not left stopped: it moves on to the
\* next piece unless another train takes the segment first.
C31_HoldsAndRetries ==
    /\ [][C31_HoldsPositionStep]_vars
    /\ \A t \in Trains : \A i \in 0..2 : FreeAgain(t, i) ~> MovedOn(t, i)

\* A train has just been refused the next segment and stands stopped at the
\* exit endpoint of its piece, on its own segment
C31_Witness ==
    \E t \in Trains :
        /\ last.op = "update" /\ last.train = t
        /\ AtEnd(t)
        /\ trains[t].stopped
        /\ trains[t].stop_duration # NoDuration
        /\ requested_segment(t) # NoName
        /\ segments[requested_segment(t)] \notin {None, t}
        /\ trains[t].current_segment # NoName
        /\ segments[trains[t].current_segment] = t

\* The update of train t that is about to run finds the lock of the next
\* piece free for it: the reservation of a junction-like next piece
\* succeeds, and so does the request for the segment of a plain one
Acquires(t) ==
    /\ ReachesExit(t)
    /\ next_track_of(t) # NoName
    /\ junction_interlock(move_along_track_piece(start(World, t), t), t,
                           trains[t].current_index + 1).ret
    /\ requested_segment(t) # NoName =>
            segments[requested_segment(t)] \in {None, t}

\* The route step after the current one of train t
next_step_of(t) == steps(trains[t].route)[trains[t].current_index + 2]

C32_TransitionStep ==
    \A t \in Trains :
        (UpdateOf(t) /\ ReachesExit(t)) =>
            IF Acquires(t)
            THEN /\ trains'[t].current_index = trains[t].current_index + 1
                 /\ trains'[t].current_track = next_step_of(t).track_id
                 /\ trains'[t].entry_ep = next_step_of(t).entry
                 /\ trains'[t].exit_ep = next_step_of(t).exit
                 /\ trains'[t].current_segment = segment_of(next_track_of(t))
                 /\ trains'[t].current_segment # NoName =>
                        segments'[trains'[t].current_segment] = t
                 /\ (/\ trains[t].current_segment # NoName
                     /\ trains[t].current_segment # trains'[t].current_segment)
                        => segments'[trains[t].current_segment] # t
                 /\ IsJunctionLike(trains[t].current_track) =>
                        junctions'[trains[t].current_track].occupied_by # t
            ELSE /\ trains'[t].current_index = trains[t].current_index
                 /\ trains'[t].current_track = trains[t].current_track
                 /\ trains[t].current_segment # NoName =>
                        segments'[trains[t].current_segment]
                            = segments[trains[t].current_segment]

\* C32: when a train at the exit endpoint acquires the lock of the next
\* piece, the same update releases its previous segment (or junction slot),
\* advances the route cursor by exactly one and makes the piece of the next
\* step its current piece, holding the new segment; when the lock is
\* refused the old segment is not freed.
C32_Transition == [][C32_TransitionStep]_vars

\* A train has just moved from a piece of one segment onto a piece of
\* another: it holds the new segment, and the old one is free
C32_Witness ==
    \E t \in Trains :
        /\ last.op = "update" /\ last.train = t
        /\ Spawned(t)
        /\ trains[t].current_index >= 1
        /\ trains[t].pos = endpoint_pos(trains[t].current_track, trains[t].entry_ep)
        /\ trains[t].current_segment # NoName
        /\ segments[trains[t].current_segment] = t
        /\ LET prev == steps(trains[t].route)[trains[t].current_index].track_id IN
           /\ segment_of(prev) \notin {NoName, trains[t].current_segment}
           /\ segments[segment_of(prev)] = None

-----------------------------------------------------------------------------
(* Claims about the end of a route *)

\* The update of train t reaches, or finds the train at, the exit endpoint
\* of the last step of its route
Finishes(t) ==
    /\ Spawned(t)
    /\ next_track_of(t) = NoName
    /\ \/ ReachesExit(t)
       \/ RouteDone(t)

\* C33: when a train reaches the exit endpoint of the last step of its
\* route it is stopped with speed 0, and every later update leaves its
\* position, its piece and its route cursor as they are and leaves it
\* stopped with speed 0, also when the last piece is a Station whose step
\* has stop? = true.
C33_FinishedStep ==
    \A t \in Trains :
        (UpdateOf(t) /\ Finishes(t)) =>
            /\ trains'[t].stopped
            /\ trains'[t].speed = 0
            /\ trains'[t].current_track = trains[t].current_track
            /\ trains'[t].current_index = trains[t].current_index
            /\ RouteDone(t) =>
                    /\ trains'[t].pos = trains[t].pos
                    /\ trains'[t].s_on_curve = trains[t].s_on_curve

C33_Finished == [][C33_FinishedStep]_vars

\* C34: a train that has completed the last step of its route (it stands at
\* the exit endpoint of the last piece) has left its Route finished:
\* current_index equals the number of steps and is_finished() is true.
C34_RouteFinished ==
    \A t \in Trains :
        RouteDone(t) =>
            /\ trains[t].current_index = Len(steps(trains[t].route))
            /\ is_finished(World, t)

-----------------------------------------------------------------------------
(* Claims about entering a piece (SpecGeom) *)

\* The train of the probe has just entered a piece
C35_JustEntered == probe.op = "enter"

\* The train stands on the entry endpoint: its grid cell and its pixel
\* coordinates are those of the endpoint
C35_AtEntryEndpoint ==
    /\ <<probe.row, probe.col>> = endpoint_grids(probe.piece)[probe.entry_ep]
    /\ screen_to_grid(cell_size, probe.x[1], probe.y[1]) = <<probe.row, probe.col>>
    /\ probe.x = Num(endpoint_coords(probe.piece, probe.entry_ep)[1])
    /\ probe.y = Num(endpoint_coords(probe.piece, probe.entry_ep)[2])

\* The length of the branch between the entry and the exit of the probe:
\* the arc length of a curved branch, the distance between the endpoints of
\* a straight one
branch_length ==
    IF IsCurvePair(probe.piece, probe.entry_ep, probe.exit_ep)
    THEN total_arc_length(probe.piece, branch_end(probe.entry_ep, probe.exit_ep))
    ELSE hypot(Num(endpoint_coords(probe.piece, probe.exit_ep)[1]
                   - endpoint_coords(probe.piece, probe.entry_ep)[1]),
               Num(endpoint_coords(probe.piece, probe.exit_ep)[2]
                   - endpoint_coords(probe.piece, probe.entry_ep)[2]))

\* The arc length of the curve of the piece of the probe: of the branch
\* traversed on a double-curve junction, of the one curved branch of a
\* junction or a curve, and 0 on a piece without a curve
piece_curve_length ==
    CASE variant(probe.piece) = "DoubleCurveJunctionTrack" ->
            total_arc_length(probe.piece, branch_end(probe.entry_ep, probe.exit_ep))
      [] variant(probe.piece) \in {"CurvedTrack", "JunctionTrack"} ->
            total_arc_length(probe.piece, "C")
      [] OTHER -> Zero

\* C35 (amended): enter_track_piece(piece, entry, exit) places the train on
\* the entry endpoint (grid cell and pixel coordinates) and sets s_on_curve
\* to 0 when entry is A and otherwise to the arc length of the piece's
\* curve, which is 0 on straight and station pieces; right afterwards
\* has_reached_endpoint(exit) is false.
C35_EntersAtEndpoint ==
    C35_JustEntered =>
        /\ C35_AtEntryEndpoint
        /\ probe.s_on_curve =
                IF probe.entry_ep = "A" THEN Zero ELSE piece_curve_length
        /\ branch_length # Zero
        /\ ~has_reached_endpoint(probe, probe.exit_ep)

\* C35 as stated: s_on_curve is 0 when entry is A and the full length of the
\* branch being traversed otherwise.
C35_FullBranchLength ==
    C35_JustEntered =>
        /\ C35_AtEntryEndpoint
        /\ probe.s_on_curve =
                IF probe.entry_ep = "A" THEN Zero ELSE branch_length
        /\ ~has_reached_endpoint(probe, probe.exit_ep)

\* A train has entered a curve at its far end: s_on_curve is the arc length
C35_Witness ==
    /\ C35_JustEntered
    /\ probe.piece = "g_curve"
    /\ probe.entry_ep = "C"
    /\ probe.s_on_curve = Num(160)
    /\ probe.x = Num(180)

-----------------------------------------------------------------------------
(* Claims about the order of the updates within a tick *)

\* The world after the update of train t in this tick
after_update(t) == train_update(World, t, now)

\* The world w with every segment and junction slot held as at present,
\* before the train whose turn it is has been updated
with_present_locks(w) ==
    [w EXCEPT !.seg = segments,
              !.jn = [j \in JunctionIds |->
                         [w.jn[j] EXCEPT !.occupied_by = junctions[j].occupied_by]]]

\* Train t is about to be updated and train t + 1 is updated after it in
\* the same tick
C36_UpdatedBefore(t) == turn = t /\ t + 1 \in Trains /\ Spawned(t + 1)

\* In this tick train t takes the free segment sg, which train t + 1 would
\* have taken had it found the locks as they are before t's update
C36_TakenEarlier(t, sg) ==
    /\ C36_UpdatedBefore(t)
    /\ segments[sg] = None
    /\ \E w1 \in {after_update(t)} :
          /\ w1.seg[sg] = t
          /\ train_update(with_present_locks(w1), t + 1, now).seg[sg] = t + 1

\* In this tick train t leaves the segment sg it holds, and train t + 1
\* takes it in its own update of the same tick
C36_FreedEarlier(t, sg) ==
    /\ C36_UpdatedBefore(t)
    /\ segments[sg] = t
    /\ \E w1 \in {after_update(t)} :
          /\ w1.seg[sg] = None
          /\ train_update(w1, t + 1, now).seg[sg] = t + 1

\* C36 (amended): within one tick the trains are updated one after another
\* in creation order, and a train evaluates its lock requests against the
\* locks as the trains updated before it in the tick have left them: a
\* segment taken earlier in the tick is refused to the train updated next,
\* which keeps its route cursor, and a segment taken by a train in the tick
\* in which the train before it left it would have been refused on the
\* locks of the start of the tick.
C36_SeesEarlierUpdates ==
    \A t \in Trains : \A sg \in SegmentNames :
        /\ C36_TakenEarlier(t, sg) =>
              \E w1 \in {after_update(t)} :
              \E w2 \in {train_update(w1, t + 1, now)} :
                  /\ w2.seg[sg] = t
                  /\ w2.tr[t + 1].current_index = w1.tr[t + 1].current_index
                  /\ w2.tr[t + 1].current_track = w1.tr[t + 1].current_track
        /\ C36_FreedEarlier(t, sg) =>
              \E w1 \in {after_update(t)} :
                  /\ train_update(with_present_locks(w1), t + 1, now).seg[sg] = t
                  /\ train_update(with_present_locks(w1), t + 1, now).tr[t + 1].current_index
                         = w1.tr[t + 1].current_index

\* C36 as stated: the update of a train has the outcome it would have on
\* the locks as they were before the train updated before it in the same
\* tick moved.
C36_SeesTickStartLocks ==
    \A t \in Trains :
        C36_UpdatedBefore(t) =>
            \E w1 \in {after_update(t)} :
                train_update(w1, t + 1, now).tr[t + 1]
                    = train_update(with_present_locks(w1), t + 1, now).tr[t + 1]

\* Train 1 is about to take a free segment that train 2, updated after it
\* in the same tick, asks for as well
C36_Witness ==
    \E sg \in SegmentNames : C36_TakenEarlier(1, sg)

\* Train 1 is about to leave a segment that train 2 takes in the same tick
C36_WitnessFreed ==
    \E sg \in SegmentNames : C36_FreedEarlier(1, sg)

-----------------------------------------------------------------------------
(* Claims about the locks a train holds *)

\* C37: in every reachable state, the state right after set_route included,
\* the current_segment of a train is none or a segment whose occupied_by is
\* that train.
C37_OnOwnSegment ==
    \A t \in Trains :
        \/ trains[t].current_segment = NoName
        \/ segments[trains[t].current_segment] = t

\* The segment train t reserved together with the junction-like piece j:
\* the segment of the piece that follows j on its route
reserved_exit_segment(t, j) ==
    IF trains[t].current_track = j /\ next_track_of(t) # NoName
    THEN segment_of(next_track_of(t))
    ELSE NoName

\* C38: every segment recorded as occupied by train t is t's current segment
\* or the exit segment reserved together with the junction t holds and
\* stands on, and every junction slot occupied by t is that of the piece t
\* stands on: no lock stays with a train that has moved on.
C38_NoLeakedLock ==
    \A t \in Trains :
        /\ \A sg \in SegmentsHeld(t) :
              \/ sg = trains[t].current_segment
              \/ \E j \in JunctionsHeld(t) : sg = reserved_exit_segment(t, j)
        /\ \A j \in JunctionsHeld(t) : trains[t].current_track = j

\* A train has passed a junction: it stands on the piece behind it holding
\* that piece's segment only, the junction slot and the segment it came
\* from are free, and another train holds a segment of its own
C38_Witness ==
    \E t \in Trains, u \in Trains :
        /\ t # u
        /\ last.op = "update"
        /\ last.train = t
        /\ trains[t].current_index = 2
        /\ IsJunctionLike(steps(trains[t].route)[2].track_id)
        /\ junctions[steps(trains[t].route)[2].track_id].occupied_by = None
        /\ segments[segment_of(steps(trains[t].route)[1].track_id)] = None
        /\ SegmentsHeld(t) = {trains[t].current_segment}
        /\ SegmentsHeld(u) # {}

\* The junction slot j or the exit segment s has an occupant, whoever it is
C39_SlotOrExitTaken(j, s) ==
    junctions[j].occupied_by # None \/ segments[s] # None

\* C39: can_reserve_junction is not re-entrant.  Whenever the junction slot
\* or the exit segment has any occupant, the requesting train included, the
\* call returns false and changes no slot and no segment; a train that holds
\* the slot or the exit segment already is never granted the junction.
C39_NotReentrantStep ==
    \A j \in JunctionIds, s \in SegmentNames, t \in Trains :
        ( /\ last'.op = "can_reserve_junction"
          /\ last'.junc = j
          /\ last'.seg = s
          /\ last'.train = t )
        => /\ C39_SlotOrExitTaken(j, s) =>
                 /\ ~last'.ret
                 /\ junctions' = junctions
                 /\ segments' = segments
           /\ (junctions[j].occupied_by = t \/ segments[s] = t) => ~last'.ret
           /\ last'.ret => (junctions[j].occupied_by = None /\ segments[s] = None)

C39_NotReentrant == [][C39_NotReentrantStep]_vars

\* A train that holds the exit segment asked for a free junction with it
\* and was refused: the slot is still free and the segment still its own
C39_Witness ==
    \E j \in JunctionIds, s \in SegmentNames, t \in Trains :
        /\ last.op = "can_reserve_junction"
        /\ last.junc = j
        /\ last.seg = s
        /\ last.train = t
        /\ ~last.ret
        /\ junctions[j].occupied_by = None
        /\ segments[s] = t
        /\ \A u \in Trains \ {t} : SegmentsHeld(u) = {} /\ JunctionsHeld(u) = {}

-----------------------------------------------------------------------------
(* Claims about the movement on a junction-like piece *)

\* The update moves train t, which stands on a junction-like piece: along
\* the piece or from it onto the next piece of its route
C40_MovesOnJunction(t) ==
    /\ UpdateOf(t)
    /\ IsJunctionLike(trains[t].current_track)
    /\ \/ trains'[t].pos # trains[t].pos
       \/ trains'[t].s_on_curve # trains[t].s_on_curve
       \/ trains'[t].current_track # trains[t].current_track
       \/ trains'[t].current_index # trains[t].current_index

\* The junction-like piece under train t is not switching and its active
\* branch is the branch of the train's (entry, exit) pair
C40_OnActiveBranch(t) ==
    /\ ~junctions[trains[t].current_track].is_switching
    /\ junctions[trains[t].current_track].active_branch
           = needed_branch(trains[t].current_track,
                           trains[t].entry_ep, trains[t].exit_ep)

\* C40: the position of a train on a junction-like piece changes only in an
\* update in which the junction is not switching and its active branch is
\* the branch of the train's (entry, exit) pair, and the update leaves the
\* junction set that way; no train advances along a branch that is not the
\* active one.
C40_MovesOnActiveBranchStep ==
    \A t \in Trains :
        C40_MovesOnJunction(t) =>
            /\ C40_OnActiveBranch(t)
            /\ junctions'[trains[t].current_track].active_branch
                   = junctions[trains[t].current_track].active_branch
            /\ ~junctions'[trains[t].current_track].is_switching

C40_MovesOnActiveBranch == [][C40_MovesOnActiveBranchStep]_vars

\* A train that waited for the switch has advanced along the curved branch
\* of the junction, which is the active one, and is part of the way along it
C40_Witness ==
    \E t \in Trains :
        /\ last.op = "update"
        /\ last.train = t
        /\ trains[t].current_track = "junction"
        /\ {trains[t].entry_ep, trains[t].exit_ep} = {"A", "C"}
        /\ junctions["junction"].active_branch = "C"
        /\ ~junctions["junction"].is_switching
        /\ ~trains[t].waiting_for_junction
        /\ ~at_track_piece_end(World, t)
        /\ IF trains[t].entry_ep = "A"
           THEN trains[t].s_on_curve > 0
           ELSE trains[t].s_on_curve < curve_length("junction")

====
